---- MODULE Spec2Model ----
(***************************************************************************)
(* Carbon emissions reporting platform: emission-factor resolution, the    *)
(* record-creation workflow built on it, the emission calculation and the  *)
(* analytics reads (year-over-year, intensity, hotspots, monthly trend),   *)
(* the connection pool with its callers, and the request handlers running  *)
(* side by side.                                                           *)
(*                                                                         *)
(* Dates are written as the integer YYYYMMDD, which orders as the calendar *)
(* does.  Quantities are integers: activity_value in whole units,          *)
(* co2e_per_unit in hundredths of kgCO2e (2.71 is 271), so a product is in *)
(* hundredths of kgCO2e (2710.00 is 271000).                               *)
(***************************************************************************)
EXTENDS Integers, Sequences, FiniteSets, TLC

VARIABLES
    factors,    \* table emission_factors: sequence of rows, factor_id = position
    clock,      \* the store's timestamp source for created_at
    records,    \* table emission_records: the committed rows
    req,        \* the create_emission_record call in flight (its locals and position)
    pending,    \* rows inserted on the call's connection and not yet committed
    held,       \* pooled connections checked out
    resolved,   \* the last EmissionCalculationService.get_valid_factor call and its result
    metrics,    \* table business_metrics: the committed rows
    reply,      \* the last calculation or analytics call and what it returned or raised
    db_pool,    \* DatabaseConnectionPool's class attributes and the application's phase
    conns,      \* the pool's connections: checked out or not, and their open transaction
    users,      \* the callers of get_db_cursor, get_db_connection and health_check
    persisted,  \* the writes committed to the database
    inflight    \* the yoy or intensity request in flight, step by step

vars == <<factors, clock, records, req, pending, held, resolved, metrics, reply,
          db_pool, conns, users, persisted, inflight>>

(* The variables of the connection pool and its callers *)
poolVars == <<db_pool, conns, users, persisted>>

-----------------------------------------------------------------------------
(* Bounds of the model *)

MaxFactors == 2
MaxRecords == 2

(* SQL NULL: an open-ended emission_factors.valid_to, an                   *)
(* emission_records.overridden_co2e that was never set                     *)
NULL == -1

(* date.today() of the run *)
Today == 20241231

(* Values of the request and factor fields *)
Names == {"Diesel", "Petrol"}
Scopes == {1, 2}
Units == {"litres", "kWh"}
Values == {1000}

(* Factor versions <<valid_from, valid_to, co2e_per_unit>>: 2.71 for the     *)
(* closed year 2023, 2.73 from 2024-01-01 on, and 2.68 from 2023-01-01 on   *)
(* with no end, which overlaps both                                         *)
Versions ==
    {<<20230101, 20231231, 271>>, <<20240101, NULL, 273>>, <<20230101, NULL, 268>>}

(* Activity dates: inside 2023, the last day of 2023, the first day of      *)
(* 2024, inside 2024, and a date after today                                *)
ActivityDates == {20230615, 20231231, 20240101, 20240615, 20991231}

(* Unit carried by the factor versions the model inserts *)
UnitOfScope(s) == IF s = 1 THEN "litres" ELSE "kWh"

(* The rows an import or admin action may insert (without id and created_at) *)
FactorInputs ==
    [activity_name : Names, scope : Scopes, version : Versions]

NoFactor == [factor_id |-> 0]
NoRequest == [pc |-> "idle"]
NoReply == [op |-> "none"]
NoCall == [pc |-> "idle"]

(* Bounds of the pool model: maxconn (DB_POOL_SIZE + DB_MAX_OVERFLOW of the *)
(* run), the callers at a time, the statements of one with block and the    *)
(* blocks one caller opens                                                  *)
MaxConn == 2
MaxUsers == 2
MaxStatements == 2
MaxBlocks == 2

ConnIds == 1..MaxConn
Users == 1..MaxUsers

(* A caller outside any block; blocks counts the blocks it has opened *)
NoUser(blocks) ==
    [pc |-> "idle", kind |-> "none", commit |-> FALSE, conn |-> 0, wrote |-> {},
     committed |-> FALSE, outcome |-> "none", blocks |-> blocks]

(* The pool as the request handlers find it: the module imported, the pool  *)
(* created, init_database() run, every connection in the pool               *)
PoolStarted ==
    /\ db_pool = [instance |-> TRUE, pool |-> "open", created |-> 1, app |-> "up"]
    /\ conns = [c \in ConnIds |-> [status |-> "free", tx |-> {}]]
    /\ users = [u \in Users |-> NoUser(0)]
    /\ persisted = {}

(* History kept with a request in flight: the store states that have        *)
(* existed since it arrived.  Both tables only grow, so a state is named by *)
(* the two row counts.                                                      *)
Observed(c, nrecords, nmetrics) ==
    IF c.pc \in {"idle", "done"} THEN c
    ELSE [c EXCEPT !.seen = @ \cup {<<nrecords, nmetrics>>}]

-----------------------------------------------------------------------------
(* The factor table as a set of rows *)
Rows(table) == {table[i] : i \in 1..Len(table)}

(* The date filter with the lower bound made exclusive *)
CoversAfterStart(f, d) ==
    /\ f.valid_from < d
    /\ (f.valid_to # NULL /\ f.valid_to >= d) \/ f.valid_to = NULL

(* WHERE valid_from <= %s AND (valid_to >= %s OR valid_to IS NULL) *)
Covers(f, d) ==
    /\ f.valid_from <= d
    /\ (f.valid_to # NULL /\ f.valid_to >= d) \/ f.valid_to = NULL

(* EmissionRepository.get_valid_factor: WHERE clause *)
RepoCandidates(table, name, scope, d) ==
    {f \in Rows(table) :
        /\ f.activity_name = name
        /\ f.scope = scope
        /\ Covers(f, d)}

(* The sort with created_at ascending *)
RepoBeforeOldestFirst(g, f) ==
    \/ g.valid_from > f.valid_from
    \/ g.valid_from = f.valid_from /\ g.created_at < f.created_at

(* ORDER BY valid_from DESC, created_at DESC: g sorts before f *)
RepoBefore(g, f) ==
    \/ g.valid_from > f.valid_from
    \/ g.valid_from = f.valid_from /\ g.created_at > f.created_at

(* EmissionRepository.get_valid_factor: the rows fetchone() may return      *)
(* under ORDER BY ... LIMIT 1, empty when the method returns None.  A row   *)
(* is a possible first row when no candidate sorts before it; rows the sort *)
(* key does not separate come in an order SQL leaves unspecified.           *)
RepoGetValidFactor(table, name, scope, d) ==
    LET cand == RepoCandidates(table, name, scope, d)
    IN  {f \in cand : \A g \in cand : ~RepoBefore(g, f)}

(* create_emission_record's own factor query: WHERE clause (no scope) *)
RouterCandidates(table, name, d) ==
    {f \in Rows(table) :
        /\ f.activity_name = name
        /\ Covers(f, d)}

(* ORDER BY valid_from DESC: g sorts before f *)
RouterBefore(g, f) == g.valid_from > f.valid_from

(* create_emission_record: the rows fetchone() may return for factor_query *)
RouterFactorQuery(table, name, d) ==
    LET cand == RouterCandidates(table, name, d)
    IN  {f \in cand : \A g \in cand : ~RouterBefore(g, f)}

(* The factor's rate taken as the result, the quantity left out *)
CalculatedCo2eRateOnly(value, f) == f.co2e_per_unit

(* calculated_co2e = emission.activity_value * float(factor['co2e_per_unit']) *)
CalculatedCo2e(value, f) == value * f.co2e_per_unit

-----------------------------------------------------------------------------
Init ==
    /\ factors = <<>>
    /\ clock = 1
    /\ records = <<>>
    /\ req = NoRequest
    /\ pending = <<>>
    /\ held = 0
    /\ resolved = [called |-> FALSE]
    /\ metrics = <<>>
    /\ reply = NoReply
    /\ PoolStarted
    /\ inflight = NoCall

(* GHGDataImporter.create_emission_factor: one committed INSERT; factor_id   *)
(* and created_at are assigned by the store.  A row gets the created_at of  *)
(* the row before it (tick = 0, as for rows of one transaction) or a later  *)
(* one (tick = 1).                                                          *)
CreateEmissionFactor(in, tick) ==
    /\ Len(factors) < MaxFactors
    /\ factors' = Append(factors,
          [factor_id |-> Len(factors) + 1,
           activity_name |-> in.activity_name,
           scope |-> in.scope,
           activity_unit |-> UnitOfScope(in.scope),
           co2e_per_unit |-> in.version[3],
           valid_from |-> in.version[1],
           valid_to |-> in.version[2],
           created_at |-> clock + tick])
    /\ clock' = clock + tick
    /\ UNCHANGED <<records, req, pending, held, resolved, metrics, reply, poolVars, inflight>>

AddFactor ==
    \E in \in FactorInputs, tick \in (IF factors = <<>> THEN {0} ELSE {0, 1}) :
        CreateEmissionFactor(in, tick)

(* EmissionCalculationService.get_valid_factor: the repository's row, or     *)
(* FactorNotFoundException when the repository returns None                 *)
ServiceGetValidFactor(name, scope, d) ==
    /\ req.pc = "idle"
    /\ \/ \E f \in RepoGetValidFactor(factors, name, scope, d) :
            resolved' = [called |-> TRUE, activity_name |-> name, scope |-> scope,
                         activity_date |-> d, factor |-> f, raised |-> "none"]
       \/ /\ RepoGetValidFactor(factors, name, scope, d) = {}
          /\ resolved' = [called |-> TRUE, activity_name |-> name, scope |-> scope,
                          activity_date |-> d, factor |-> NoFactor,
                          raised |-> "FactorNotFoundException"]
    /\ UNCHANGED <<factors, clock, records, req, pending, held, metrics, reply, poolVars, inflight>>

Resolve == \E name \in Names, scope \in Scopes, d \in ActivityDates :
              ServiceGetValidFactor(name, scope, d)

-----------------------------------------------------------------------------
(* create_emission_record, statement by statement *)

(* The call ends: a response code and, for a 500, details.error = str(e),    *)
(* named here by the statement that raised                                  *)
Finish(outcome, error) ==
    [req EXCEPT !.pc = "done", !.outcome = outcome, !.error = error]

(* The request arrives: emission is bound, the try block is entered *)
Submit(name, unit, d, value) ==
    /\ req.pc \in {"idle", "done"}
    /\ Len(records) < MaxRecords
    /\ req' = [pc |-> "date_check", activity_name |-> name, activity_unit |-> unit,
               activity_date |-> d, activity_value |-> value, factor |-> NoFactor,
               calculated_co2e |-> 0, outcome |-> "none", error |-> "none",
               before |-> records]
    /\ UNCHANGED <<factors, clock, records, pending, held, resolved, metrics, reply, poolVars, inflight>>

(* The handler without the future-date check *)
DateCheckNone ==
    /\ req.pc = "date_check"
    /\ req' = [req EXCEPT !.pc = "acquire"]
    /\ UNCHANGED <<factors, clock, records, pending, held, resolved, metrics, reply, poolVars, inflight>>

(* if emission.activity_date > today: raise HTTPException(400, FUTURE_DATE) *)
DateCheck ==
    /\ req.pc = "date_check"
    /\ req' = IF req.activity_date > Today
                THEN Finish("FUTURE_DATE", "none")
                ELSE [req EXCEPT !.pc = "acquire"]
    /\ UNCHANGED <<factors, clock, records, pending, held, resolved, metrics, reply, poolVars, inflight>>

(* with get_db_cursor(): db_pool.get_connection() and conn.cursor() *)
Acquire ==
    /\ req.pc = "acquire"
    /\ held' = held + 1
    /\ req' = [req EXCEPT !.pc = "lookup"]
    /\ UNCHANGED <<factors, clock, records, pending, resolved, metrics, reply, poolVars, inflight>>

(* get_connection raises: nothing was acquired, the handler answers 500 *)
AcquireFail ==
    /\ req.pc = "acquire"
    /\ req' = Finish("INTERNAL_ERROR", "connect")
    /\ UNCHANGED <<factors, clock, records, pending, held, resolved, metrics, reply, poolVars, inflight>>

(* cursor.execute(factor_query); factor = cursor.fetchone();                *)
(* if not factor: raise HTTPException(404, FACTOR_NOT_FOUND)                *)
Lookup ==
    /\ req.pc = "lookup"
    /\ \/ \E f \in RouterFactorQuery(factors, req.activity_name, req.activity_date) :
            /\ req' = [req EXCEPT !.pc = "unit_check", !.factor = f]
            /\ UNCHANGED held
       \/ /\ RouterFactorQuery(factors, req.activity_name, req.activity_date) = {}
          /\ req' = Finish("FACTOR_NOT_FOUND", "none")
          /\ held' = held - 1
    /\ UNCHANGED <<factors, clock, records, pending, resolved, metrics, reply, poolVars, inflight>>

(* The error path without conn.rollback() *)
AbortNoRollback(error) ==
    /\ pending' = pending
    /\ held' = held - 1
    /\ req' = Finish("INTERNAL_ERROR", error)
    /\ UNCHANGED <<factors, clock, records, resolved, metrics, reply, poolVars, inflight>>

(* A Psycopg2Error inside the with block: get_db_cursor rolls back, returns *)
(* the connection and re-raises; the handler answers 500                    *)
Abort(error) ==
    /\ pending' = <<>>
    /\ held' = held - 1
    /\ req' = Finish("INTERNAL_ERROR", error)
    /\ UNCHANGED <<factors, clock, records, resolved, metrics, reply, poolVars, inflight>>

LookupFail == req.pc = "lookup" /\ Abort("select")

(* The handler without the unit comparison *)
UnitCheckNone ==
    /\ req.pc = "unit_check"
    /\ req' = [req EXCEPT !.pc = "insert",
                  !.calculated_co2e = CalculatedCo2e(req.activity_value, req.factor)]
    /\ UNCHANGED <<factors, clock, records, pending, held, resolved, metrics, reply, poolVars, inflight>>

(* if emission.activity_unit != factor['activity_unit']:                    *)
(*     raise HTTPException(400, UNIT_MISMATCH)                              *)
(* calculated_co2e = emission.activity_value * float(factor['co2e_per_unit']) *)
UnitCheck ==
    /\ req.pc = "unit_check"
    /\ IF req.activity_unit # req.factor.activity_unit
         THEN /\ req' = Finish("UNIT_MISMATCH", "none")
              /\ held' = held - 1
         ELSE /\ req' = [req EXCEPT !.pc = "insert",
                           !.calculated_co2e = CalculatedCo2e(req.activity_value, req.factor)]
              /\ UNCHANGED held
    /\ UNCHANGED <<factors, clock, records, pending, resolved, metrics, reply, poolVars, inflight>>

(* The row with scope 1 written instead of the factor's scope *)
InsertedRowScopeOne ==
    [record_id |-> Len(records) + 1,
     factor_id |-> req.factor.factor_id,
     activity_date |-> req.activity_date,
     activity_name |-> req.activity_name,
     activity_value |-> req.activity_value,
     activity_unit |-> req.activity_unit,
     calculated_co2e |-> req.calculated_co2e,
     overridden_co2e |-> NULL,
     scope |-> 1]

(* The row of the INSERT INTO emission_records statement *)
InsertedRow ==
    [record_id |-> Len(records) + 1,
     factor_id |-> req.factor.factor_id,
     activity_date |-> req.activity_date,
     activity_name |-> req.activity_name,
     activity_value |-> req.activity_value,
     activity_unit |-> req.activity_unit,
     calculated_co2e |-> req.calculated_co2e,
     overridden_co2e |-> NULL,
     scope |-> req.factor.scope]

(* cursor.execute(insert_query): the row is written in the open transaction *)
Insert ==
    /\ req.pc = "insert"
    /\ pending' = Append(pending, InsertedRow)
    /\ req' = [req EXCEPT !.pc = "commit"]
    /\ UNCHANGED <<factors, clock, records, held, resolved, metrics, reply, poolVars, inflight>>

InsertFail == req.pc = "insert" /\ Abort("insert")

(* A commit that also rebinds the stored records of the same activity to    *)
(* the factor just resolved                                                 *)
CommitRebinding ==
    /\ req.pc = "commit"
    /\ records' =
          [i \in 1..Len(records) |->
              IF records[i].activity_name = req.activity_name
                THEN [records[i] EXCEPT
                        !.factor_id = req.factor.factor_id,
                        !.calculated_co2e =
                            CalculatedCo2e(records[i].activity_value, req.factor)]
                ELSE records[i]] \o pending
    /\ pending' = <<>>
    /\ held' = held - 1
    /\ req' = Finish("CREATED", "none")
    /\ inflight' = Observed(inflight, Len(records) + Len(pending), Len(metrics))
    /\ UNCHANGED <<factors, clock, resolved, metrics, reply, poolVars>>

(* cursor.connection.commit(), the response, and the release of the         *)
(* connection on leaving the with block                                     *)
Commit ==
    /\ req.pc = "commit"
    /\ records' = records \o pending
    /\ pending' = <<>>
    /\ held' = held - 1
    /\ req' = Finish("CREATED", "none")
    /\ inflight' = Observed(inflight, Len(records) + Len(pending), Len(metrics))
    /\ UNCHANGED <<factors, clock, resolved, metrics, reply, poolVars>>

CommitFail == req.pc = "commit" /\ Abort("commit")

CreateRecordStep ==
    \/ \E name \in Names, unit \in Units, d \in ActivityDates, value \in Values :
          Submit(name, unit, d, value)
    \/ DateCheck
    \/ Acquire
    \/ AcquireFail
    \/ Lookup
    \/ LookupFail
    \/ UnitCheck
    \/ Insert
    \/ InsertFail
    \/ Commit
    \/ CommitFail

Next == AddFactor \/ CreateRecordStep

Spec == Init /\ [][Next]_vars

(* The resolver on its own: factor versions are added and the service is    *)
(* asked for the factor of (activity_name, scope, activity_date)            *)
NextResolver == AddFactor \/ Resolve

SpecResolver == Init /\ [][NextResolver]_vars

-----------------------------------------------------------------------------
(* Claims about the Factor Resolver, under SpecResolver *)

(* A step in which the service answers a get_valid_factor call *)
ResolveStep == resolved' # resolved

(* The selection predicate of the specification, written out *)
Eligible(f, name, scope, d) ==
    /\ f.activity_name = name
    /\ f.scope = scope
    /\ f.valid_from <= d
    /\ (f.valid_to = NULL \/ f.valid_to >= d)

(* C1: get_valid_factor returns a factor only if it is a row of the table    *)
(* with this activity_name and scope, valid_from <= activity_date and       *)
(* valid_to NULL or >= activity_date (both bounds inclusive), and it        *)
(* reports not-found exactly when no row satisfies this predicate.          *)
C1_SelectionPredicate ==
    [][ResolveStep =>
        LET r == resolved'
        IN  /\ r.raised = "none" =>
                /\ r.factor \in Rows(factors)
                /\ Eligible(r.factor, r.activity_name, r.scope, r.activity_date)
            /\ r.raised = "FactorNotFoundException" <=>
                ~ \E f \in Rows(factors) :
                    Eligible(f, r.activity_name, r.scope, r.activity_date)
            /\ r.raised \in {"none", "FactorNotFoundException"}]_vars

(* C1 witness: a factor was returned on its exact valid_from, or on its     *)
(* exact valid_to                                                           *)
C1_Witness ==
    /\ resolved.called
    /\ resolved.raised = "none"
    /\ resolved.factor.valid_from = resolved.activity_date

C1_WitnessValidTo ==
    /\ resolved.called
    /\ resolved.raised = "none"
    /\ resolved.factor.valid_to = resolved.activity_date

(* C2: among the factors of the same activity_name and scope whose window   *)
(* covers the date, the one returned has the greatest valid_from, and among *)
(* those with that valid_from the latest created_at.                        *)
C2_TieBreak ==
    [][ResolveStep /\ resolved'.raised = "none" =>
        LET r == resolved'
        IN  \A g \in Rows(factors) :
                Eligible(g, r.activity_name, r.scope, r.activity_date) =>
                    /\ g.valid_from <= r.factor.valid_from
                    /\ g.valid_from = r.factor.valid_from =>
                          g.created_at <= r.factor.created_at]_vars

(* C2 witness: the returned factor won against an older row that was also   *)
(* eligible and has the same valid_from but an earlier created_at           *)
C2_Witness ==
    /\ resolved.called
    /\ resolved.raised = "none"
    /\ \E g \in Rows(factors) :
          /\ g.factor_id < resolved.factor.factor_id
          /\ Eligible(g, resolved.activity_name, resolved.scope, resolved.activity_date)
          /\ g.valid_from = resolved.factor.valid_from
          /\ g.created_at < resolved.factor.created_at

(* C7: two selections on the same table with the same arguments return the  *)
(* same factor.                                                             *)
C7_Deterministic ==
    [][(/\ resolved.called
        /\ resolved'.called
        /\ factors' = factors
        /\ resolved'.activity_name = resolved.activity_name
        /\ resolved'.scope = resolved.scope
        /\ resolved'.activity_date = resolved.activity_date)
       => resolved'.factor = resolved.factor]_vars

-----------------------------------------------------------------------------
(* Claims about record creation, under Spec *)

(* The factor row a stored record names *)
FactorOf(r) == factors[r.factor_id]

(* The record a successful commit has just added *)
NewRecord == records'[Len(records')]

(* C3: the factor create_emission_record selects and binds is the one the   *)
(* Factor Resolver returns, on the same table, for the record's             *)
(* activity_name, stored scope and activity_date.                           *)
C3_BindsResolverChoice ==
    [][/\ (req.pc = "lookup" /\ req'.pc = "unit_check") =>
            req'.factor \in RepoGetValidFactor(factors, req.activity_name,
                                               req'.factor.scope, req.activity_date)
       /\ records' # records =>
            /\ NewRecord.factor_id = req.factor.factor_id
            /\ NewRecord.scope = req.factor.scope
            /\ NewRecord.activity_name = req.activity_name
            /\ NewRecord.activity_date = req.activity_date]_vars

IsDiesel2023(f) ==
    /\ f.activity_name = "Diesel" /\ f.scope = 1 /\ f.co2e_per_unit = 271
    /\ f.valid_from = 20230101 /\ f.valid_to = 20231231

IsDiesel2024(f) ==
    /\ f.activity_name = "Diesel" /\ f.scope = 1 /\ f.co2e_per_unit = 273
    /\ f.valid_from = 20240101 /\ f.valid_to = NULL

ExampleTable ==
    /\ Len(factors) = 2
    /\ \E i, j \in 1..2 : IsDiesel2023(factors[i]) /\ IsDiesel2024(factors[j])

(* C5: every stored record has calculated_co2e = activity_value times the   *)
(* co2e_per_unit of the factor it names, and that factor's window covers    *)
(* the record's date; with the two Diesel versions, 1000 litres on          *)
(* 2023-06-15 gives 2710.00 with the 2023 factor and on 2024-06-15 gives    *)
(* 2730.00 with the 2024 factor.                                            *)
C5_CalculatedFromBoundFactor ==
    \A i \in 1..Len(records) :
        LET r == records[i]
            f == FactorOf(r)
        IN  /\ r.factor_id \in 1..Len(factors)
            /\ r.calculated_co2e = r.activity_value * f.co2e_per_unit
            /\ f.valid_from <= r.activity_date
            /\ (f.valid_to = NULL \/ f.valid_to >= r.activity_date)
            /\ (ExampleTable /\ r.activity_name = "Diesel" /\ r.activity_value = 1000) =>
                  /\ r.activity_date = 20230615 =>
                        r.calculated_co2e = 271000 /\ IsDiesel2023(f)
                  /\ r.activity_date = 20240615 =>
                        r.calculated_co2e = 273000 /\ IsDiesel2024(f)

(* C5 witness: both records of the worked example are stored, with          *)
(* different factor ids                                                     *)
C5_Witness ==
    /\ ExampleTable
    /\ \E i, j \in 1..Len(records) :
          /\ records[i].activity_date = 20230615
          /\ records[i].calculated_co2e = 271000
          /\ records[j].activity_date = 20240615
          /\ records[j].calculated_co2e = 273000
          /\ records[i].factor_id # records[j].factor_id

(* C6: while an attempt is under way and after it has failed, the stored    *)
(* records are those stored before the attempt; a finished attempt leaves   *)
(* no uncommitted row on its connection; only success adds a row, and       *)
(* exactly one.                                                             *)
C6_FailureLeavesNoTrace ==
    /\ (req.pc # "idle" /\ ~(req.pc = "done" /\ req.outcome = "CREATED")) =>
          records = req.before
    /\ req.pc = "done" => pending = <<>>
    /\ (req.pc = "done" /\ req.outcome = "CREATED") =>
          /\ Len(records) = Len(req.before) + 1
          /\ SubSeq(records, 1, Len(req.before)) = req.before

(* C6 witness: the commit of an inserted row failed and nothing was stored  *)
C6_Witness ==
    /\ req.pc = "done"
    /\ req.outcome = "INTERNAL_ERROR"
    /\ req.error = "commit"
    /\ records = req.before
    /\ Len(records) > 0

(* C8: the scope of every stored record is the scope of the factor it names *)
C8_ScopeFromFactor ==
    \A i \in 1..Len(records) : records[i].scope = FactorOf(records[i]).scope

(* C8 witness: a record was stored for a factor of scope 2 *)
C8_Witness ==
    \E i \in 1..Len(records) : FactorOf(records[i]).scope = 2

(* C9: an attempt whose unit differs from the unit of the factor it         *)
(* resolved ends in UNIT_MISMATCH with nothing stored, and every stored     *)
(* record has the unit of the factor it names.                              *)
C9_UnitMustMatch ==
    /\ \A i \in 1..Len(records) :
          records[i].activity_unit = FactorOf(records[i]).activity_unit
    /\ (req.pc \in {"insert", "commit", "done"} /\ req.factor # NoFactor
          /\ req.activity_unit # req.factor.activity_unit) =>
            /\ req.pc = "done"
            /\ req.outcome = "UNIT_MISMATCH"
            /\ records = req.before
            /\ pending = <<>>
    /\ (req.pc = "done" /\ req.outcome = "UNIT_MISMATCH") =>
            /\ req.factor # NoFactor
            /\ req.activity_unit # req.factor.activity_unit

(* C9 witness: an attempt was rejected for its unit *)
C9_Witness ==
    /\ req.pc = "done"
    /\ req.outcome = "UNIT_MISMATCH"
    /\ req.activity_unit = "kWh"
    /\ req.factor.activity_unit = "litres"

(* The workflow states as the claim names them: the date check and the unit *)
(* check are Validating, the lookup Resolving, insert and commit Committing *)
PhaseOfClaim(pc) ==
    CASE pc \in {"date_check", "unit_check"} -> 1
      [] pc \in {"acquire", "lookup"} -> 2
      [] pc \in {"insert", "commit"} -> 3
      [] OTHER -> 4

(* The order of the handler: date check, lookup, unit check on the factor   *)
(* found, insert and commit                                                 *)
PhaseOfCode(pc) ==
    CASE pc = "date_check" -> 1
      [] pc \in {"acquire", "lookup"} -> 2
      [] pc = "unit_check" -> 3
      [] pc \in {"insert", "commit"} -> 4
      [] OTHER -> 5

(* A step of the attempt under way (not the arrival of the next request) *)
AttemptStep == req.pc \notin {"idle", "done"} /\ req' # req

Rejections == {"FUTURE_DATE", "FACTOR_NOT_FOUND", "UNIT_MISMATCH"}

(* C10 as stated: an attempt passes through Validating (date and unit       *)
(* checks), Resolving, Committing in that order and never backwards.        *)
C10_PhaseOrderAsStated ==
    [][AttemptStep => PhaseOfClaim(req'.pc) >= PhaseOfClaim(req.pc)]_vars

(* C10 amended: an attempt passes through date check, Resolving, unit check *)
(* and Committing in that order and never backwards; a rejection is         *)
(* terminal and stores nothing; the insert is issued only in Committing,    *)
(* after date check, lookup and unit check have succeeded.                  *)
C10_StepOrder ==
    [][/\ AttemptStep => PhaseOfCode(req'.pc) >= PhaseOfCode(req.pc)
       /\ (AttemptStep /\ req'.outcome \in Rejections) =>
            /\ req'.pc = "done"
            /\ records' = records
            /\ pending' = <<>>
       /\ req.pc = "done" => req'.pc \in {"done", "date_check"}
       /\ (pending' # pending /\ pending' # <<>>) =>
            /\ req.pc = "insert"
            /\ req'.pc = "commit"
            /\ req.activity_date <= Today
            /\ req.factor \in Rows(factors)
            /\ req.factor.activity_name = req.activity_name
            /\ req.activity_unit = req.factor.activity_unit
       /\ records' # records => req.pc = "commit"]_vars

(* C10 witness: the insert has been issued and awaits its commit *)
C10_Witness ==
    /\ req.pc = "commit"
    /\ Len(pending) = 1

-----------------------------------------------------------------------------
(* The calculation service and the analytics reads: each call is one step  *)
(* over the stored tables, which it leaves as they are.                    *)
(*                                                                         *)
(* Stored amounts of kgCO2e are in hundredths (100.00 is 10000); a         *)
(* business metric's value is in whole units of production.                *)

(* Arguments of calculate_emission: negative, zero and positive quantities, *)
(* a factor dictionary without its rate, and rates below, at and above 0   *)
CalcValues == {-1000, -1, 0, 1, 500, 1000, 2000}

CalcRates == {-271, 0, 268, 271}

CalcFactors ==
    {[factor_id |-> 1, activity_unit |-> "litres"]} \cup
    {[factor_id |-> 1, activity_unit |-> "litres", co2e_per_unit |-> r] : r \in CalcRates}

(* calculate_emission without the check of the factor's rate *)
CalculateEmissionRateUnchecked(value, f) ==
    IF value < 0
      THEN [raised |-> "ValueError", message |-> "Activity value cannot be negative"]
    ELSE IF "co2e_per_unit" \notin DOMAIN f
      THEN [raised |-> "KeyError", message |-> "Factor dictionary missing required key"]
    ELSE [raised |-> "none", result |-> value * f.co2e_per_unit]

(* EmissionCalculationService.calculate_emission: what the call raises, or  *)
(* the product it returns                                                   *)
CalculateEmission(value, f) ==
    IF value < 0
      THEN [raised |-> "ValueError", message |-> "Activity value cannot be negative"]
    ELSE IF "co2e_per_unit" \notin DOMAIN f
      THEN [raised |-> "KeyError", message |-> "Factor dictionary missing required key"]
    ELSE IF f.co2e_per_unit < 0
      THEN [raised |-> "ValueError", message |-> "Emission factor cannot be negative"]
    ELSE [raised |-> "none", result |-> value * f.co2e_per_unit]

(* One call of calculate_emission *)
CalculateEmissionCall(value, f) ==
    /\ reply = NoReply
    /\ reply' = [op |-> "calculate_emission", activity_value |-> value,
                 factor |-> f, out |-> CalculateEmission(value, f)]
    /\ UNCHANGED <<factors, clock, records, req, pending, held, resolved, metrics, poolVars, inflight>>

Calculate == \E value \in CalcValues, f \in CalcFactors : CalculateEmissionCall(value, f)

(* Bounds of the stored tables the reads run over *)
MaxStored == 3
MaxMetrics == 2

(* for scope in [1, 2, 3] *)
ScopeList == <<1, 2, 3>>

(* Rows emission_records may hold, as <<activity_date, activity_name,      *)
(* scope, calculated_co2e, overridden_co2e>>: two years, the last day of   *)
(* 2023 and the first of 2024, two sources with equal sums, overrides      *)
(* below and above the calculated amount and an override of 0              *)
StoredInputs ==
    << <<20230615, "Diesel", 1, 10000, NULL>>,
       <<20231231, "Diesel", 1, 20000, 5000>>,
       <<20240101, "Diesel", 1, 25000, NULL>>,
       <<20240615, "Petrol", 1, 10000, NULL>>,
       <<20240615, "Petrol", 2, 20000, 0>>,
       <<20230615, "Diesel", 3, 10000, NULL>>,
       <<20240615, "Diesel", 3, 5000, 40000>> >>

(* Rows business_metrics may hold, as <<metric_name, value, unit,          *)
(* metric_date>>, one of them with the value 0                             *)
MetricInputs ==
    << <<"Tons of Steel", 450, "tons", 20230615>>,
       <<"Tons of Steel", 0, "tons", 20231231>>,
       <<"Tons of Steel", 300, "tons", 20240101>>,
       <<"Units Sold", 200, "units", 20230615>> >>

MetricNames == {"Tons of Steel", "Units Sold"}

(* The columns of an emission_records row that the analytics queries read *)
StoredRecord(i) ==
    [record_id |-> i,
     activity_date |-> StoredInputs[i][1],
     activity_name |-> StoredInputs[i][2],
     scope |-> StoredInputs[i][3],
     calculated_co2e |-> StoredInputs[i][4],
     overridden_co2e |-> StoredInputs[i][5]]

(* A business_metrics row *)
StoredMetric(i) ==
    [metric_id |-> i,
     metric_name |-> MetricInputs[i][1],
     value |-> MetricInputs[i][2],
     unit |-> MetricInputs[i][3],
     metric_date |-> MetricInputs[i][4]]

(* The members of a set of row numbers in increasing order *)
InOrder(I) ==
    CHOOSE s \in [1..Cardinality(I) -> I] :
        \A a, b \in 1..Cardinality(I) : a < b => s[a] < s[b]

(* The tables of at most n rows drawn from the first m inputs *)
Picks(m, n) == {I \in SUBSET (1..m) : Cardinality(I) <= n}

StoredTables ==
    {[k \in 1..Cardinality(I) |-> StoredRecord(InOrder(I)[k])] :
        I \in Picks(Len(StoredInputs), MaxStored)}

MetricTables ==
    {[k \in 1..Cardinality(I) |-> StoredMetric(InOrder(I)[k])] :
        I \in Picks(Len(MetricInputs), MaxMetrics)}

(* The store as the reads find it: any of the tables above, no request in  *)
(* flight                                                                  *)
InitServices ==
    /\ factors = <<>>
    /\ clock = 1
    /\ records \in StoredTables
    /\ req = NoRequest
    /\ pending = <<>>
    /\ held = 0
    /\ resolved = [called |-> FALSE]
    /\ metrics \in MetricTables
    /\ reply = NoReply
    /\ PoolStarted
    /\ inflight = NoCall

(* EXTRACT(YEAR FROM activity_date), EXTRACT(MONTH FROM activity_date) *)
YearOf(d) == d \div 10000
MonthOf(d) == (d \div 100) % 100

(* The override ignored: every record counts with its calculated amount *)
CoalesceCalculatedOnly(r) == r.calculated_co2e

(* The amount taken from the rate the factor table holds now *)
CoalesceFromFactors(r) ==
    IF factors # <<>> THEN factors[1].co2e_per_unit
    ELSE IF r.overridden_co2e # NULL THEN r.overridden_co2e ELSE r.calculated_co2e

(* COALESCE(overridden_co2e, calculated_co2e) *)
Coalesce(r) ==
    IF r.overridden_co2e # NULL THEN r.overridden_co2e ELSE r.calculated_co2e

(* SUM over a set of rows of the column f *)
RECURSIVE Sum(_, _)
Sum(f, S) ==
    IF S = {} THEN 0
    ELSE LET x == CHOOSE x \in S : TRUE
         IN  f[x] + Sum(f, S \ {x})

(* SUM(COALESCE(overridden_co2e, calculated_co2e)) over a set of records *)
SumCo2e(S) == Sum([r \in S |-> Coalesce(r)], S)

(* round(n / d, k) for d > 0, with n already scaled by 10^k: the integers  *)
(* nearest to n / d.  Two of them when n / d lies exactly halfway; which   *)
(* one a binary float rounds to depends on its last bit.                   *)
Nearest(n, d) ==
    {q \in {n \div d, (n \div d) + 1} :
        IF n - q * d >= 0 THEN 2 * (n - q * d) <= d ELSE 2 * (q * d - n) <= d}

-----------------------------------------------------------------------------
(* GET /api/analytics/yoy *)

(* Query values of current_year and previous_year; NULL is a parameter     *)
(* left out                                                                *)
YearInputs == {NULL, 1899, 2022, 2023, 2024, 2101}

(* EmissionRepository.get_emissions_by_year_and_scope: one row for every   *)
(* (year, scope) of the asked years that has records, with the sum of      *)
(* their amounts                                                           *)
GetEmissionsByYearAndScope(table, years) ==
    LET hit == {r \in Rows(table) : YearOf(r.activity_date) \in years}
    IN  {[year |-> g[1], scope |-> g[2],
          total_emissions |->
              SumCo2e({r \in hit : YearOf(r.activity_date) = g[1] /\ r.scope = g[2]})] :
            g \in {<<YearOf(r.activity_date), r.scope>> : r \in hit}}

(* The dictionary scope -> total the service fills from the rows of a year *)
YearTotals(data, year) ==
    [s \in {g.scope : g \in {h \in data : h.year = year}} |->
        (CHOOSE g \in data : g.year = year /\ g.scope = s).total_emissions]

(* The list with an entry only for the scopes that have a total *)
ScopeDataPresentOnly(totals) ==
    LET present == {i \in 1..Len(ScopeList) : ScopeList[i] \in DOMAIN totals}
    IN  [k \in 1..Cardinality(present) |->
            [scope |-> ScopeList[InOrder(present)[k]],
             total_emissions |-> totals[ScopeList[InOrder(present)[k]]],
             unit |-> "kgCO2e"]]

(* current_year_data / previous_year_data: an entry for each of the scopes *)
(* 1, 2, 3, with totals.get(scope, 0.0)                                    *)
ScopeData(totals) ==
    [i \in 1..Len(ScopeList) |->
        [scope |-> ScopeList[i],
         total_emissions |->
             IF ScopeList[i] \in DOMAIN totals THEN totals[ScopeList[i]] ELSE 0,
         unit |-> "kgCO2e"]]

(* The year's total taken from scope 1 alone *)
SumValuesScopeOne(totals) == IF 1 \in DOMAIN totals THEN totals[1] ELSE 0

(* sum(totals.values()) *)
SumValues(totals) == Sum(totals, DOMAIN totals)

(* The percentage without the case of an empty previous year *)
ChangePercentageNoZeroCase(total_current, total_previous) ==
    IF total_previous > 0
      THEN Nearest(10000 * (total_current - total_previous), total_previous)
      ELSE {0}

(* round(change_percentage, 2), in hundredths of a percent:                 *)
(* change_absolute / total_previous * 100 when total_previous > 0,          *)
(* otherwise 0.0 if total_current == 0 else 100.0                           *)
ChangePercentage(total_current, total_previous) ==
    IF total_previous > 0
      THEN Nearest(10000 * (total_current - total_previous), total_previous)
      ELSE IF total_current = 0 THEN {0} ELSE {10000}

(* AnalyticsService.get_yoy_emissions: the results the call may return *)
GetYoYEmissions(table, current_year, previous_year) ==
    LET data == GetEmissionsByYearAndScope(table, {current_year, previous_year})
        cur  == YearTotals(data, current_year)
        prev == IF previous_year = current_year
                  THEN YearTotals({}, previous_year)
                  ELSE YearTotals(data, previous_year)
    IN  {[current_year |-> current_year,
          previous_year |-> previous_year,
          current_year_data |-> ScopeData(cur),
          previous_year_data |-> ScopeData(prev),
          comparison |->
              [total_current |-> SumValues(cur),
               total_previous |-> SumValues(prev),
               change_percentage |-> p,
               change_absolute |-> SumValues(cur) - SumValues(prev)]] :
            p \in ChangePercentage(SumValues(cur), SumValues(prev))}

(* The handler get_yoy_emissions: defaults, validation, the service call *)
YoYEndpoint(current_in, previous_in) ==
    LET current_year  == IF current_in = NULL THEN YearOf(Today) ELSE current_in
        previous_year == IF previous_in = NULL THEN current_year - 1 ELSE previous_in
        call == [op |-> "yoy", current_year |-> current_year,
                 previous_year |-> previous_year]
    IN  /\ reply = NoReply
        /\ IF current_year < 1900 \/ current_year > 2100
             \/ previous_year < 1900 \/ previous_year > 2100
             THEN reply' = call @@ [status |-> 400, code |-> "INVALID_YEAR"]
           ELSE IF previous_year >= current_year
             THEN reply' = call @@ [status |-> 400, code |-> "INVALID_YEAR_RANGE"]
           ELSE \E result \in GetYoYEmissions(records, current_year, previous_year) :
                    reply' = call @@ [status |-> 200, code |-> "OK", body |-> result]
        /\ UNCHANGED <<factors, clock, records, req, pending, held, resolved, metrics, poolVars, inflight>>

YoY == \E current_in \in YearInputs, previous_in \in YearInputs :
           YoYEndpoint(current_in, previous_in)

-----------------------------------------------------------------------------
(* GET /api/analytics/intensity *)

(* Query values <<start_date, end_date>>: the year 2023, a range that      *)
(* starts and ends on dates of stored rows, the turn of the year, 2024,    *)
(* one day, an end before the start, and eleven years                      *)
PeriodInputs ==
    {<<20230101, 20231231>>, <<20230615, 20231231>>, <<20231231, 20240101>>,
     <<20240101, 20241231>>, <<20240615, 20240615>>, <<20240615, 20230615>>,
     <<20130101, 20231231>>}

(* Query values of metric_name: stored names, one with blanks around it,   *)
(* one of blanks only, one no row carries                                  *)
MetricNameInputs ==
    {"Tons of Steel", "Units Sold", " Tons of Steel ", "  ", "Tons of Gold"}

(* str.strip() on the values above *)
Strip(name) ==
    IF name = " Tons of Steel " THEN "Tons of Steel"
    ELSE IF name = "  " THEN ""
    ELSE name

(* date.toordinal(): the day number of a date in the proleptic Gregorian   *)
(* calendar, so that (end_date - start_date).days is a difference          *)
ToOrdinal(date) ==
    LET m   == MonthOf(date)
        y   == IF m <= 2 THEN YearOf(date) - 1 ELSE YearOf(date)
        era == y \div 400
        yoe == y - era * 400
        doy == ((153 * (IF m > 2 THEN m - 3 ELSE m + 9) + 2) \div 5) + (date % 100) - 1
    IN  era * 146097 + yoe * 365 + (yoe \div 4) - (yoe \div 100) + doy - 305

(* The period with its last day left out *)
InPeriodEndExclusive(d, start_date, end_date) == start_date <= d /\ d < end_date

(* BETWEEN %s AND %s *)
InPeriod(d, start_date, end_date) == start_date <= d /\ d <= end_date

(* The aggregate with the count taken over the whole table *)
GetTotalEmissionsForPeriodCountAll(table, start_date, end_date) ==
    LET hit == {r \in Rows(table) : InPeriod(r.activity_date, start_date, end_date)}
    IN  [total_emissions |-> IF hit = {} THEN NULL ELSE SumCo2e(hit),
         record_count |-> Len(table)]

(* EmissionRepository.get_total_emissions_for_period: the one row of the   *)
(* aggregate; SUM over no rows is NULL                                     *)
GetTotalEmissionsForPeriod(table, start_date, end_date) ==
    LET hit == {r \in Rows(table) : InPeriod(r.activity_date, start_date, end_date)}
    IN  [total_emissions |-> IF hit = {} THEN NULL ELSE SumCo2e(hit),
         record_count |-> Cardinality(hit)]

(* BusinessMetricsRepository.get_metric_total_for_period: the aggregate    *)
(* row, or None when its total_value is NULL (SUM over no rows), written   *)
(* here as a row with only that NULL.  The rows of one metric_name carry   *)
(* one unit, which is then MAX(unit).                                      *)
GetMetricTotalForPeriod(mtable, metric_name, start_date, end_date) ==
    LET hit == {m \in Rows(mtable) :
                    /\ m.metric_name = metric_name
                    /\ InPeriod(m.metric_date, start_date, end_date)}
    IN  IF hit = {} THEN [total_value |-> NULL]
        ELSE [total_value |-> Sum([m \in hit |-> m.value], hit),
              unit |-> CHOOSE u \in {m.unit : m \in hit} : TRUE,
              record_count |-> Cardinality(hit)]

(* NoProductionDataException.details as built by its constructor *)
ProductionDetails(metric_name, start_date, end_date) ==
    [metric_name |-> metric_name, start_date |-> start_date, end_date |-> end_date]

(* The zero case raised with the details of the no-rows case *)
ZeroProductionDetailsUnlabelled(metric_name, start_date, end_date) ==
    ProductionDetails(metric_name, start_date, end_date)

(* details={'reason': 'Total production value is zero'} merged in *)
ZeroProductionDetails(metric_name, start_date, end_date) ==
    ProductionDetails(metric_name, start_date, end_date) @@
    [reason |-> "Total production value is zero"]

(* AnalyticsService.calculate_emission_intensity after its two repository  *)
(* calls: what it may raise or return for the rows they gave.  intensity   *)
(* is round(total_emissions / total_production, 4) in ten-thousandths:     *)
(* total_emissions is in hundredths, hence the 100.                        *)
IntensityOutcome(emissions_result, production_result, start_date, end_date, metric_name) ==
    LET total_emissions ==
            IF emissions_result.total_emissions = NULL
              THEN 0 ELSE emissions_result.total_emissions
    IN  IF production_result.total_value = NULL
          THEN {[raised |-> "NoProductionDataException",
                 status_code |-> 422,
                 details |-> ProductionDetails(metric_name, start_date, end_date)]}
        ELSE IF production_result.total_value = 0
          THEN {[raised |-> "NoProductionDataException",
                 status_code |-> 422,
                 details |-> ZeroProductionDetails(metric_name, start_date, end_date)]}
        ELSE {[raised |-> "none",
               result |->
                  [period |-> <<start_date, end_date>>,
                   metric_name |-> metric_name,
                   total_emissions |-> total_emissions,
                   total_production |-> production_result.total_value,
                   production_unit |-> production_result.unit,
                   intensity |-> q,
                   record_count |-> emissions_result.record_count]] :
                q \in Nearest(100 * total_emissions, production_result.total_value)}

(* AnalyticsService.calculate_emission_intensity over one state of the two *)
(* tables                                                                  *)
CalculateEmissionIntensity(table, mtable, start_date, end_date, metric_name) ==
    IntensityOutcome(GetTotalEmissionsForPeriod(table, start_date, end_date),
                     GetMetricTotalForPeriod(mtable, metric_name, start_date, end_date),
                     start_date, end_date, metric_name)

(* The handler get_emission_intensity: validation, the service call, and   *)
(* its except clauses in the order written: ValueError, HTTPException,     *)
(* Exception.  NoProductionDataException derives from Exception through    *)
(* GHGPlatformException, so the last clause is the one that takes it.      *)
IntensityEndpoint(start_date, end_date, metric_name) ==
    LET call == [op |-> "intensity", start_date |-> start_date,
                 end_date |-> end_date, metric_name |-> metric_name]
    IN  /\ reply = NoReply
        /\ IF end_date < start_date
             THEN reply' = call @@ [status |-> 400, code |-> "INVALID_DATE_RANGE"]
           ELSE IF ToOrdinal(end_date) - ToOrdinal(start_date) > 3650
             THEN reply' = call @@ [status |-> 400, code |-> "DATE_RANGE_TOO_LARGE"]
           ELSE IF Strip(metric_name) = ""
             THEN reply' = call @@ [status |-> 400, code |-> "INVALID_METRIC_NAME"]
           ELSE \E out \in CalculateEmissionIntensity(
                               records, metrics, start_date, end_date, Strip(metric_name)) :
                    reply' = call @@
                        IF out.raised = "none"
                          THEN [status |-> 200, code |-> "OK", service |-> out]
                          ELSE [status |-> 500, code |-> "INTERNAL_ERROR", service |-> out]
        /\ UNCHANGED <<factors, clock, records, req, pending, held, resolved, metrics, poolVars, inflight>>

Intensity == \E period \in PeriodInputs, metric_name \in MetricNameInputs :
                 IntensityEndpoint(period[1], period[2], metric_name)

-----------------------------------------------------------------------------
(* GET /api/analytics/hotspots *)

(* Query values; NULL is a parameter left out.  limit = 0 is outside the   *)
(* range the Query declaration accepts.                                    *)
StartInputs == {NULL, 20130101, 20230615, 20240101}
EndInputs == {NULL, 20231231}
ScopeInputs == {NULL, 1, 3}
LimitInputs == {NULL, 0, 1, 2}

(* limit: int = Query(default=10, ge=1, le=100) *)
DefaultLimit == 10
LimitMin == 1
LimitMax == 100

(* The WHERE clause get_emissions_by_source builds: a condition for each   *)
(* filter that is given                                                    *)
MatchesFilters(r, filters) ==
    /\ filters.start_date # NULL => r.activity_date >= filters.start_date
    /\ filters.end_date # NULL => r.activity_date <= filters.end_date
    /\ filters.scope # NULL => r.scope = filters.scope

(* GROUP BY activity_name, scope with SUM and COUNT; AVG is their quotient *)
SourceGroups(hit) ==
    {[activity_name |-> g[1], scope |-> g[2],
      total_emissions |->
          SumCo2e({r \in hit : r.activity_name = g[1] /\ r.scope = g[2]}),
      record_count |->
          Cardinality({r \in hit : r.activity_name = g[1] /\ r.scope = g[2]})] :
        g \in {<<r.activity_name, r.scope>> : r \in hit}}

(* The order with the smallest sums first *)
SortsBeforeAscending(g, h) == g.total_emissions < h.total_emissions

(* ORDER BY total_emissions DESC: g comes before h *)
SortsBefore(g, h) == g.total_emissions > h.total_emissions

(* EmissionRepository.get_emissions_by_source: the row lists fetchall()    *)
(* may return: the groups in an order the sort allows (groups of equal sum *)
(* in any order), cut after limit rows                                     *)
GetEmissionsBySource(table, filters) ==
    LET groups == SourceGroups({r \in Rows(table) : MatchesFilters(r, filters)})
        n == Cardinality(groups)
        k == IF filters.limit < n THEN filters.limit ELSE n
    IN  {[i \in 1..k |-> s[i]] :
            s \in {t \in [1..n -> groups] :
                      \A a, b \in 1..n :
                          a < b => t[a] # t[b] /\ ~SortsBefore(t[b], t[a])}}

(* The entry with the whole share, 100.00, when the total is not above 0 *)
HotspotItemsWholeShare(row, total_emissions) ==
    {[activity_name |-> row.activity_name,
      scope |-> row.scope,
      total_emissions |-> row.total_emissions,
      percentage |-> pct,
      record_count |-> row.record_count,
      average_per_record |-> avg] :
        pct \in (IF total_emissions > 0
                   THEN Nearest(10000 * row.total_emissions, total_emissions)
                   ELSE {10000}),
        avg \in Nearest(row.total_emissions, row.record_count)}

(* The entry of the hotspots list for a row: percentage of the total the   *)
(* service summed, 0.0 when that total is not above 0, and the average,    *)
(* both rounded to 2 decimals                                              *)
HotspotItems(row, total_emissions) ==
    {[activity_name |-> row.activity_name,
      scope |-> row.scope,
      total_emissions |-> row.total_emissions,
      percentage |-> pct,
      record_count |-> row.record_count,
      average_per_record |-> avg] :
        pct \in (IF total_emissions > 0
                   THEN Nearest(10000 * row.total_emissions, total_emissions)
                   ELSE {0}),
        avg \in Nearest(row.total_emissions, row.record_count)}

(* AnalyticsService.get_emission_hotspots: the results the call may return; *)
(* total_emissions is the sum over the rows the repository returned        *)
GetEmissionHotspots(table, filters) ==
    UNION {
        LET k == Len(rows)
            total_emissions == Sum([i \in 1..k |-> rows[i].total_emissions], 1..k)
            items == UNION {HotspotItems(rows[i], total_emissions) : i \in 1..k}
        IN  {[total_emissions |-> total_emissions, hotspots |-> h] :
                h \in {f \in [1..k -> items] :
                          \A i \in 1..k : f[i] \in HotspotItems(rows[i], total_emissions)}} :
        rows \in GetEmissionsBySource(table, filters)}

(* The handler get_emission_hotspots: the declared range of limit (a value *)
(* outside it is answered 422 before the body runs), the date validation,  *)
(* the service call                                                        *)
HotspotsEndpoint(start_date, end_date, scope, limit_in) ==
    LET limit == IF limit_in = NULL THEN DefaultLimit ELSE limit_in
        filters == [start_date |-> start_date, end_date |-> end_date,
                    scope |-> scope, limit |-> limit]
        call == [op |-> "hotspots", limit_in |-> limit_in, filters |-> filters]
    IN  /\ reply = NoReply
        /\ IF limit < LimitMin \/ limit > LimitMax
             THEN reply' = call @@ [status |-> 422, code |-> "VALIDATION_ERROR"]
           ELSE IF start_date # NULL /\ end_date # NULL /\ end_date < start_date
             THEN reply' = call @@ [status |-> 400, code |-> "INVALID_DATE_RANGE"]
           ELSE IF /\ start_date # NULL /\ end_date # NULL
                   /\ ToOrdinal(end_date) - ToOrdinal(start_date) > 3650
             THEN reply' = call @@ [status |-> 400, code |-> "DATE_RANGE_TOO_LARGE"]
           ELSE \E result \in GetEmissionHotspots(records, filters) :
                    reply' = call @@ [status |-> 200, code |-> "OK", body |-> result]
        /\ UNCHANGED <<factors, clock, records, req, pending, held, resolved, metrics, poolVars, inflight>>

Hotspots == \E start_date \in StartInputs, end_date \in EndInputs,
               scope \in ScopeInputs, limit_in \in LimitInputs :
                HotspotsEndpoint(start_date, end_date, scope, limit_in)

-----------------------------------------------------------------------------
(* GET /api/analytics/monthly *)

(* Query values of year; 1999 is below the declared minimum *)
MonthlyYearInputs == {NULL, 1999, 2023}

(* year: int = Query(default=2024, ge=2000, le=2100) *)
DefaultMonthlyYear == 2024
MonthlyYearMin == 2000
MonthlyYearMax == 2100

(* EmissionRepository.get_monthly_emissions: a row for every month of the  *)
(* year that has records, ORDER BY month ASC (month_name follows from      *)
(* month)                                                                  *)
GetMonthlyEmissions(table, year) ==
    LET hit == {r \in Rows(table) : YearOf(r.activity_date) = year}
        months == {MonthOf(r.activity_date) : r \in hit}
    IN  [k \in 1..Cardinality(months) |->
            [month |-> InOrder(months)[k],
             total_emissions |->
                 SumCo2e({r \in hit : MonthOf(r.activity_date) = InOrder(months)[k]})]]

(* The handler get_monthly_emissions *)
MonthlyEndpoint(year_in) ==
    LET year == IF year_in = NULL THEN DefaultMonthlyYear ELSE year_in
        call == [op |-> "monthly", year |-> year]
    IN  /\ reply = NoReply
        /\ IF year < MonthlyYearMin \/ year > MonthlyYearMax
             THEN reply' = call @@ [status |-> 422, code |-> "VALIDATION_ERROR"]
             ELSE reply' = call @@
                      [status |-> 200, code |-> "OK",
                       body |-> [year |-> year,
                                 monthly_data |-> GetMonthlyEmissions(records, year)]]
        /\ UNCHANGED <<factors, clock, records, req, pending, held, resolved, metrics, poolVars, inflight>>

Monthly == \E year_in \in MonthlyYearInputs : MonthlyEndpoint(year_in)

-----------------------------------------------------------------------------
(* The answer of the call has gone out; the next call finds the same store *)
Deliver ==
    /\ reply # NoReply
    /\ reply' = NoReply
    /\ UNCHANGED <<factors, clock, records, req, pending, held, resolved, metrics, poolVars, inflight>>

NextServices == Calculate \/ YoY \/ Intensity \/ Hotspots \/ Monthly \/ Deliver

SpecServices == InitServices /\ [][NextServices]_vars

(* The analytics reads over a store that also holds emission factors: no   *)
(* factor, or one of the Diesel versions                                   *)
FactorRow(version) ==
    [factor_id |-> 1,
     activity_name |-> "Diesel",
     scope |-> 1,
     activity_unit |-> UnitOfScope(1),
     co2e_per_unit |-> version[3],
     valid_from |-> version[1],
     valid_to |-> version[2],
     created_at |-> 1]

FactorTables ==
    {<<>>, <<FactorRow(<<20230101, 20231231, 271>>)>>, <<FactorRow(<<20240101, NULL, 273>>)>>}

InitAnalytics ==
    /\ factors \in FactorTables
    /\ clock = 1
    /\ records \in StoredTables
    /\ req = NoRequest
    /\ pending = <<>>
    /\ held = 0
    /\ resolved = [called |-> FALSE]
    /\ metrics \in MetricTables
    /\ reply = NoReply
    /\ PoolStarted
    /\ inflight = NoCall

NextAnalytics == YoY \/ Intensity \/ Hotspots \/ Monthly \/ Deliver

SpecAnalytics == InitAnalytics /\ [][NextAnalytics]_vars

-----------------------------------------------------------------------------
(* Claims about the calculation and the analytics reads, under SpecServices *)

(* What a record counts for, in the words of the specification: its        *)
(* overridden_co2e when present, its calculated_co2e otherwise             *)
Contribution(r) ==
    IF r.overridden_co2e = NULL THEN r.calculated_co2e ELSE r.overridden_co2e

Total(S) == Sum([r \in S |-> Contribution(r)], S)

Stored == Rows(records)

Answered(op) == reply.op = op /\ reply.status = 200

(* C11: calculate_emission raises ValueError for every activity_value < 0,  *)
(* KeyError when the factor has no co2e_per_unit, ValueError when           *)
(* co2e_per_unit < 0, and in every other case returns exactly               *)
(* activity_value * co2e_per_unit, so that doubling the quantity doubles    *)
(* the result.                                                              *)
C11_CalculateContract ==
    reply.op = "calculate_emission" =>
        LET v   == reply.activity_value
            f   == reply.factor
            out == reply.out
            has == "co2e_per_unit" \in DOMAIN f
        IN  /\ v < 0 =>
                /\ out.raised = "ValueError"
                /\ out.message = "Activity value cannot be negative"
            /\ v >= 0 /\ ~has => out.raised = "KeyError"
            /\ v >= 0 /\ has /\ f.co2e_per_unit < 0 =>
                /\ out.raised = "ValueError"
                /\ out.message = "Emission factor cannot be negative"
            /\ v >= 0 /\ has /\ f.co2e_per_unit >= 0 =>
                /\ out.raised = "none"
                /\ out.result = v * f.co2e_per_unit
                /\ CalculateEmission(2 * v, f).raised = "none"
                /\ CalculateEmission(2 * v, f).result = 2 * out.result

(* C11 witness: 1000 units at 2.71 returned 2710.00 *)
C11_Witness ==
    /\ reply.op = "calculate_emission"
    /\ reply.activity_value = 1000
    /\ "co2e_per_unit" \in DOMAIN reply.factor
    /\ reply.factor.co2e_per_unit = 271
    /\ reply.out.raised = "none"
    /\ reply.out.result = 271000

(* A negative rate was refused although the quantity was valid *)
C11_WitnessNegativeRate ==
    /\ reply.op = "calculate_emission"
    /\ reply.activity_value > 0
    /\ "co2e_per_unit" \in DOMAIN reply.factor
    /\ reply.factor.co2e_per_unit < 0
    /\ reply.out.raised = "ValueError"

(* The records an aggregate of the reply covers *)
InYear(y) == {r \in Stored : YearOf(r.activity_date) = y}

InRange(start_date, end_date) ==
    {r \in Stored : start_date <= r.activity_date /\ r.activity_date <= end_date}

Matching(filters) ==
    {r \in Stored :
        /\ filters.start_date = NULL \/ r.activity_date >= filters.start_date
        /\ filters.end_date = NULL \/ r.activity_date <= filters.end_date
        /\ filters.scope = NULL \/ r.scope = filters.scope}

(* C12: in the year-over-year, intensity, hotspots and monthly aggregates   *)
(* each record counts with its overridden_co2e when it has one and with     *)
(* its calculated_co2e otherwise.                                           *)
C12_OverrideSupersedes ==
    /\ Answered("yoy") =>
          /\ reply.body.comparison.total_current = Total(InYear(reply.current_year))
          /\ reply.body.comparison.total_previous = Total(InYear(reply.previous_year))
    /\ Answered("intensity") =>
          reply.service.result.total_emissions =
              Total(InRange(reply.start_date, reply.end_date))
    /\ Answered("hotspots") =>
          \A i \in 1..Len(reply.body.hotspots) :
              LET h == reply.body.hotspots[i]
              IN  h.total_emissions =
                      Total({r \in Matching(reply.filters) :
                                r.activity_name = h.activity_name /\ r.scope = h.scope})
    /\ Answered("monthly") =>
          \A k \in 1..Len(reply.body.monthly_data) :
              LET m == reply.body.monthly_data[k]
              IN  m.total_emissions =
                      Total({r \in InYear(reply.year) : MonthOf(r.activity_date) = m.month})

(* A record whose override differs from its calculated amount *)
Corrected(r) == r.overridden_co2e # NULL /\ r.overridden_co2e # r.calculated_co2e

(* C12 witness: an intensity over a period that holds a corrected record *)
C12_Witness ==
    /\ Answered("intensity")
    /\ \E r \in InRange(reply.start_date, reply.end_date) : Corrected(r)

(* The same for the other three aggregates *)
C12_WitnessOthers ==
    \/ Answered("yoy") /\ \E r \in InYear(reply.current_year) : Corrected(r)
    \/ /\ Answered("hotspots")
       /\ \E i \in 1..Len(reply.body.hotspots), r \in Matching(reply.filters) :
             /\ Corrected(r)
             /\ r.activity_name = reply.body.hotspots[i].activity_name
             /\ r.scope = reply.body.hotspots[i].scope
    \/ Answered("monthly") /\ \E r \in InYear(reply.year) : Corrected(r)

-----------------------------------------------------------------------------
(* Year-over-year *)

(* The entries of a year's list that carry the scope s *)
EntriesOf(data, s) == {i \in 1..Len(data) : data[i].scope = s}

(* The year's total as the specification defines it: over scopes 1, 2, 3 *)
YearTotal(y) == Total({r \in InYear(y) : r.scope \in {1, 2, 3}})

(* C13 as stated: the percentage change is (currentTotal - previousTotal)   *)
(* / previousTotal * 100 whenever previousTotal is not 0, and 0 or 100      *)
(* when it is 0.  change_percentage is in hundredths of a percent.          *)
C13_ChangePercentageExact ==
    Answered("yoy") =>
        LET tc  == YearTotal(reply.current_year)
            tp  == YearTotal(reply.previous_year)
            pct == reply.body.comparison.change_percentage
        IN  /\ tp # 0 => pct * tp = 10000 * (tc - tp)
            /\ tp = 0 => pct = (IF tc = 0 THEN 0 ELSE 10000)

(* C13: change_percentage is (currentTotal - previousTotal) /               *)
(* previousTotal * 100 rounded to 2 decimals whenever previousTotal is not  *)
(* 0; when previousTotal is 0 it is 0 if currentTotal is 0 and 100          *)
(* otherwise; with no records in either year all six per-scope values and   *)
(* change_percentage are 0.                                                 *)
C13_ChangePercentageRounded ==
    Answered("yoy") =>
        LET tc  == YearTotal(reply.current_year)
            tp  == YearTotal(reply.previous_year)
            pct == reply.body.comparison.change_percentage
            err == pct * tp - 10000 * (tc - tp)
        IN  /\ tp # 0 => 2 * err <= tp /\ -2 * err <= tp
            /\ tp = 0 => pct = (IF tc = 0 THEN 0 ELSE 10000)
            /\ InYear(reply.current_year) \cup InYear(reply.previous_year) = {} =>
                  /\ \A i \in 1..3 :
                        /\ reply.body.current_year_data[i].total_emissions = 0
                        /\ reply.body.previous_year_data[i].total_emissions = 0
                  /\ Len(reply.body.current_year_data) = 3
                  /\ Len(reply.body.previous_year_data) = 3
                  /\ pct = 0

(* C13 witness: 150.00 in the previous year and 100.00 in the current one   *)
(* give -33.33                                                              *)
C13_Witness ==
    /\ Answered("yoy")
    /\ YearTotal(reply.previous_year) = 15000
    /\ YearTotal(reply.current_year) = 10000
    /\ reply.body.comparison.change_percentage = -3333

(* An empty previous year with a current year that has records gives 100,   *)
(* and two empty years give 0                                               *)
C13_WitnessEmptyPrevious ==
    /\ Answered("yoy")
    /\ YearTotal(reply.previous_year) = 0
    /\ YearTotal(reply.current_year) > 0
    /\ reply.body.comparison.change_percentage = 10000

C13_WitnessNoRecords ==
    /\ Answered("yoy")
    /\ InYear(reply.current_year) \cup InYear(reply.previous_year) = {}
    /\ Stored # {}
    /\ reply.body.comparison.change_percentage = 0

(* C14: yoy returns for each of the two years exactly one entry for each    *)
(* of the scopes 1, 2 and 3, whose value is the sum of override-else-       *)
(* calculated over the records of that calendar year and scope, 0 when      *)
(* there is none.                                                           *)
C14_OneEntryPerScope ==
    Answered("yoy") =>
        /\ Len(reply.body.current_year_data) = 3
        /\ Len(reply.body.previous_year_data) = 3
        /\ \A s \in {1, 2, 3} :
              /\ Cardinality(EntriesOf(reply.body.current_year_data, s)) = 1
              /\ Cardinality(EntriesOf(reply.body.previous_year_data, s)) = 1
              /\ \A i \in EntriesOf(reply.body.current_year_data, s) :
                    reply.body.current_year_data[i].total_emissions =
                        Total({r \in InYear(reply.current_year) : r.scope = s})
              /\ \A i \in EntriesOf(reply.body.previous_year_data, s) :
                    reply.body.previous_year_data[i].total_emissions =
                        Total({r \in InYear(reply.previous_year) : r.scope = s})

(* C14 witness: the current year has records of scope 1 and none of scope   *)
(* 2, and the previous year has two records of one scope                    *)
C14_Witness ==
    /\ Answered("yoy")
    /\ \E r \in InYear(reply.current_year) : r.scope = 1
    /\ ~ \E r \in InYear(reply.current_year) : r.scope = 2
    /\ \E r, q \in InYear(reply.previous_year) : r # q /\ r.scope = q.scope
    /\ \E i \in 1..Len(reply.body.current_year_data) :
          /\ reply.body.current_year_data[i].scope = 2
          /\ reply.body.current_year_data[i].total_emissions = 0

(* C15: in every yoy result total_current is the sum of the three values    *)
(* of current_year_data and total_previous the sum of the three values of   *)
(* previous_year_data.                                                      *)
C15_TotalsAreScopeSums ==
    Answered("yoy") =>
        /\ reply.body.comparison.total_current =
              Sum([i \in 1..Len(reply.body.current_year_data) |->
                      reply.body.current_year_data[i].total_emissions],
                  1..Len(reply.body.current_year_data))
        /\ reply.body.comparison.total_previous =
              Sum([i \in 1..Len(reply.body.previous_year_data) |->
                      reply.body.previous_year_data[i].total_emissions],
                  1..Len(reply.body.previous_year_data))

(* C15 witness: a current year with amounts in two scopes *)
C15_Witness ==
    /\ Answered("yoy")
    /\ \E i, j \in 1..Len(reply.body.current_year_data) :
          /\ i # j
          /\ reply.body.current_year_data[i].total_emissions > 0
          /\ reply.body.current_year_data[j].total_emissions > 0
    /\ reply.body.comparison.total_previous > 0

-----------------------------------------------------------------------------
(* Intensity *)

(* The call reached AnalyticsService.calculate_emission_intensity *)
IntensityCalled == reply.op = "intensity" /\ "service" \in DOMAIN reply

(* The business_metrics rows of the name the service was given, dated       *)
(* within the period                                                        *)
Production ==
    {m \in Rows(metrics) :
        /\ m.metric_name = Strip(reply.metric_name)
        /\ reply.start_date <= m.metric_date
        /\ m.metric_date <= reply.end_date}

ProductionTotal == Sum([m \in Production |-> m.value], Production)

(* C16: calculate_emission_intensity raises NoProductionDataException,      *)
(* divides nothing and returns no intensity, both when no business_metrics  *)
(* row of that name is dated within [start, end] and when those rows sum    *)
(* to 0; the details of the second case carry a reason the first lacks.     *)
C16_NoProductionData ==
    IntensityCalled =>
        /\ Production = {} \/ ProductionTotal = 0 =>
              /\ reply.service.raised = "NoProductionDataException"
              /\ "result" \notin DOMAIN reply.service
              /\ reply.status # 200
        /\ Production = {} =>
              "reason" \notin DOMAIN reply.service.details
        /\ Production # {} /\ ProductionTotal = 0 =>
              /\ "reason" \in DOMAIN reply.service.details
              /\ reply.service.details.reason = "Total production value is zero"

(* C16 witness: the rows of the period sum to 0 *)
C16_Witness ==
    /\ IntensityCalled
    /\ Production # {}
    /\ ProductionTotal = 0
    /\ reply.service.raised = "NoProductionDataException"

(* No row of the period carries the name, though the table has rows *)
C16_WitnessNoRows ==
    /\ IntensityCalled
    /\ Production = {}
    /\ metrics # <<>>
    /\ reply.service.raised = "NoProductionDataException"

(* C17: a request for which the service raises NoProductionDataException    *)
(* is answered 422 and never with the 500 internal-error response.          *)
C17_NoProductionIsBusinessError ==
    /\ IntensityCalled
    /\ reply.service.raised = "NoProductionDataException"
    => /\ reply.status = 422
       /\ reply.status # 500

(* C18: a successful intensity reports the sum of override-else-calculated  *)
(* over exactly the records with start <= activity_date <= end, the sum of  *)
(* value over exactly the rows of that name with start <= metric_date <=    *)
(* end, and their quotient rounded to 4 decimals.  intensity is in          *)
(* ten-thousandths, total_emissions in hundredths.                          *)
C18_IntensityQuotient ==
    Answered("intensity") =>
        LET res == reply.service.result
            err == res.intensity * ProductionTotal - 100 * res.total_emissions
        IN  /\ res.total_emissions = Total(InRange(reply.start_date, reply.end_date))
            /\ res.total_production = ProductionTotal
            /\ ProductionTotal > 0
            /\ 2 * err <= ProductionTotal
            /\ -2 * err <= ProductionTotal

(* C18 witness: 100.00 kgCO2e over 450 units, the ratio of 10000 to 45000, *)
(* give 0.2222                                                              *)
C18_Witness ==
    /\ Answered("intensity")
    /\ reply.service.result.total_emissions = 10000
    /\ reply.service.result.total_production = 450
    /\ reply.service.result.intensity = 2222

(* Records and rows dated exactly start and exactly end were counted *)
C18_WitnessBoundaries ==
    /\ Answered("intensity")
    /\ reply.start_date < reply.end_date
    /\ \E r, q \in InRange(reply.start_date, reply.end_date) :
          r.activity_date = reply.start_date /\ q.activity_date = reply.end_date
    /\ \E m, n \in Production :
          m.metric_date = reply.start_date /\ n.metric_date = reply.end_date

-----------------------------------------------------------------------------
(* Hotspots *)

(* The sources among the records that match the filters *)
Sources(filters) == {<<r.activity_name, r.scope>> : r \in Matching(filters)}

RecordsOf(filters, g) ==
    {r \in Matching(filters) : r.activity_name = g[1] /\ r.scope = g[2]}

(* n / d rounded to the nearest integer is q (d > 0) *)
IsRounded(q, n, d) == 2 * (q * d - n) <= d /\ 2 * (n - q * d) <= d

(* C19: total_emissions is the total over all sources matching the filters  *)
(* and each percentage is groupSum / grandTotal * 100 (rounded to 2         *)
(* decimals, 0 when the grand total is 0) with that same grand total,       *)
(* whatever the limit.                                                      *)
C19_GrandTotalOverAllSources ==
    Answered("hotspots") =>
        LET grand == Total(Matching(reply.filters))
            h     == reply.body.hotspots
        IN  /\ reply.body.total_emissions = grand
            /\ \A i \in 1..Len(h) :
                  IF grand = 0
                    THEN h[i].percentage = 0
                    ELSE IsRounded(h[i].percentage, 10000 * h[i].total_emissions, grand)

(* The list of a hotspots answer, apart from the averages: the effective    *)
(* limit is 10 when none is given, the entries are distinct sources of the  *)
(* matching records with their sum and count, in non-increasing order of    *)
(* sum, min(limit, number of sources) of them, and no source left out has   *)
(* a larger sum than one returned                                           *)
RankedSources ==
    LET f == reply.filters
        h == reply.body.hotspots
        n == Cardinality(Sources(f))
    IN  /\ f.limit = (IF reply.limit_in = NULL THEN 10 ELSE reply.limit_in)
        /\ Len(h) = (IF f.limit < n THEN f.limit ELSE n)
        /\ \A i \in 1..Len(h) :
              /\ <<h[i].activity_name, h[i].scope>> \in Sources(f)
              /\ h[i].total_emissions =
                    Total(RecordsOf(f, <<h[i].activity_name, h[i].scope>>))
              /\ h[i].record_count =
                    Cardinality(RecordsOf(f, <<h[i].activity_name, h[i].scope>>))
        /\ \A i, j \in 1..Len(h) :
              i < j =>
                  /\ <<h[i].activity_name, h[i].scope>> # <<h[j].activity_name, h[j].scope>>
                  /\ h[i].total_emissions >= h[j].total_emissions
        /\ \A g \in Sources(f) :
              (\A i \in 1..Len(h) : g # <<h[i].activity_name, h[i].scope>>) =>
                  \A i \in 1..Len(h) : Total(RecordsOf(f, g)) <= h[i].total_emissions

(* C20 as stated: the ranked list, each entry with average = sum / count *)
C20_AverageExact ==
    Answered("hotspots") =>
        /\ RankedSources
        /\ \A i \in 1..Len(reply.body.hotspots) :
              reply.body.hotspots[i].average_per_record * reply.body.hotspots[i].record_count
                  = reply.body.hotspots[i].total_emissions

(* C20: hotspots groups the records matching the given filters by           *)
(* (activity_name, scope), reports for each group its sum, its count and    *)
(* average = sum / count rounded to 2 decimals, in non-increasing order of  *)
(* sum, and returns exactly the min(limit, number of groups) groups with    *)
(* the largest sums, with limit 10 when none is given.                      *)
C20_RankedGroups ==
    Answered("hotspots") =>
        /\ RankedSources
        /\ \A i \in 1..Len(reply.body.hotspots) :
              IsRounded(reply.body.hotspots[i].average_per_record,
                        reply.body.hotspots[i].total_emissions,
                        reply.body.hotspots[i].record_count)

(* C20 witness: three sources, limit 2, the two returned in strictly        *)
(* decreasing order                                                         *)
C20_Witness ==
    /\ Answered("hotspots")
    /\ reply.limit_in = 2
    /\ Cardinality(Sources(reply.filters)) = 3
    /\ Len(reply.body.hotspots) = 2
    /\ reply.body.hotspots[1].total_emissions > reply.body.hotspots[2].total_emissions

(* A source of three records that sum to 400.00 reports 133.33 *)
C20_WitnessAverage ==
    /\ Answered("hotspots")
    /\ Len(reply.body.hotspots) = 1
    /\ reply.body.hotspots[1].record_count = 3
    /\ reply.body.hotspots[1].total_emissions = 40000
    /\ reply.body.hotspots[1].average_per_record = 13333

(* No limit given, a date and a scope filter that leave some records out *)
C20_WitnessFilters ==
    /\ Answered("hotspots")
    /\ reply.limit_in = NULL
    /\ reply.filters.start_date # NULL
    /\ reply.filters.scope # NULL
    /\ Matching(reply.filters) # {}
    /\ \E r, q \in Stored :
          /\ r.activity_date < reply.filters.start_date
          /\ q.activity_date >= reply.filters.start_date
          /\ q.scope # reply.filters.scope

(* Two sources, limit 1: the case C19 is about *)
C19_WitnessTruncated ==
    /\ Answered("hotspots")
    /\ Cardinality(Sources(reply.filters)) = 2
    /\ Len(reply.body.hotspots) = 1
    /\ reply.body.hotspots[1].percentage = 10000

-----------------------------------------------------------------------------
(* Hotspots over empty and zero data *)

(* The hotspots request passed the handler's validation *)
HotspotsAccepted == reply.op = "hotspots" /\ reply.status \notin {400, 422}

(* C21: a hotspots request that passes validation is answered 200 and not   *)
(* with an error; when no record matches the filters the list is empty and  *)
(* the total is 0; and whenever the reported total is 0, or the total over  *)
(* all matching records is 0, every returned entry has percentage 0 (the    *)
(* branch that divides is not taken).                                       *)
C21_EmptyAndZeroData ==
    HotspotsAccepted =>
        /\ reply.status = 200
        /\ Matching(reply.filters) = {} =>
              /\ reply.body.hotspots = <<>>
              /\ reply.body.total_emissions = 0
        /\ reply.body.total_emissions = 0 \/ Total(Matching(reply.filters)) = 0 =>
              \A i \in 1..Len(reply.body.hotspots) :
                  reply.body.hotspots[i].percentage = 0

(* C21 witness: records match, all of them overridden to 0, so a group is   *)
(* returned under a total of 0                                              *)
C21_Witness ==
    /\ HotspotsAccepted
    /\ Matching(reply.filters) # {}
    /\ reply.body.total_emissions = 0
    /\ Len(reply.body.hotspots) = 1
    /\ reply.body.hotspots[1].percentage = 0

(* The store has records and none matches the filters *)
C21_WitnessNoMatch ==
    /\ HotspotsAccepted
    /\ Stored # {}
    /\ Matching(reply.filters) = {}
    /\ reply.body.hotspots = <<>>
    /\ reply.body.total_emissions = 0

-----------------------------------------------------------------------------
(* Intensity over a period without emissions *)

(* C30: an intensity request that passes validation, with business_metrics *)
(* rows of the name in [start, end] that sum to more than 0 and no         *)
(* emission record dated in [start, end], is answered 200 with             *)
(* total_emissions 0, record_count 0 and intensity 0.                      *)
C30_NoEmissionsIsZero ==
    /\ IntensityCalled
    /\ Production # {}
    /\ ProductionTotal # 0
    /\ InRange(reply.start_date, reply.end_date) = {}
    => /\ reply.status = 200
       /\ reply.service.raised = "none"
       /\ reply.service.result.total_emissions = 0
       /\ reply.service.result.record_count = 0
       /\ reply.service.result.intensity = 0

(* C30 witness: the store has records, all dated outside the period, and   *)
(* production inside it                                                    *)
C30_Witness ==
    /\ IntensityCalled
    /\ ProductionTotal > 0
    /\ Stored # {}
    /\ InRange(reply.start_date, reply.end_date) = {}
    /\ reply.status = 200
    /\ reply.service.result.intensity = 0

-----------------------------------------------------------------------------
(* The analytics reads and the factor table, under SpecAnalytics *)

AnalyticsOps == {"yoy", "intensity", "hotspots", "monthly"}

(* A step in which one of the four analytics calls is answered *)
AnalyticsStep == reply = NoReply /\ reply'.op \in AnalyticsOps

(* Every amount and count of a successful answer is the one emission       *)
(* records and business metrics alone give                                 *)
DeterminedByStore ==
    /\ Answered("yoy") =>
          /\ \A i \in 1..Len(reply.body.current_year_data) :
                reply.body.current_year_data[i].total_emissions =
                    Total({r \in InYear(reply.current_year) :
                              r.scope = reply.body.current_year_data[i].scope})
          /\ \A i \in 1..Len(reply.body.previous_year_data) :
                reply.body.previous_year_data[i].total_emissions =
                    Total({r \in InYear(reply.previous_year) :
                              r.scope = reply.body.previous_year_data[i].scope})
          /\ reply.body.comparison.change_absolute =
                Total(InYear(reply.current_year)) - Total(InYear(reply.previous_year))
    /\ Answered("intensity") =>
          /\ reply.service.result.total_emissions =
                Total(InRange(reply.start_date, reply.end_date))
          /\ reply.service.result.record_count =
                Cardinality(InRange(reply.start_date, reply.end_date))
          /\ reply.service.result.total_production = ProductionTotal
    /\ Answered("hotspots") =>
          /\ RankedSources
          /\ reply.body.total_emissions =
                Sum([i \in 1..Len(reply.body.hotspots) |->
                        Total(RecordsOf(reply.filters,
                                        <<reply.body.hotspots[i].activity_name,
                                          reply.body.hotspots[i].scope>>))],
                    1..Len(reply.body.hotspots))
    /\ Answered("monthly") =>
          /\ {reply.body.monthly_data[k].month : k \in 1..Len(reply.body.monthly_data)}
                = {MonthOf(r.activity_date) : r \in InYear(reply.year)}
          /\ \A k \in 1..Len(reply.body.monthly_data) :
                reply.body.monthly_data[k].total_emissions =
                    Total({r \in InYear(reply.year) :
                              MonthOf(r.activity_date) = reply.body.monthly_data[k].month})

(* C24: a yoy, intensity, hotspots or monthly call leaves emission records, *)
(* business metrics and emission factors as they were, and what it answers  *)
(* is given by the emission records and business metrics alone, the same    *)
(* whatever the factor table holds.                                         *)
C24_AnalyticsReadOnly ==
    [][AnalyticsStep =>
          /\ UNCHANGED <<records, metrics, factors>>
          /\ DeterminedByStore']_vars

(* C24 witness: a year-over-year answer over records of the year while the *)
(* factor table holds a rate                                               *)
C24_Witness ==
    /\ Answered("yoy")
    /\ factors # <<>>
    /\ InYear(reply.current_year) # {}
    /\ reply.body.comparison.total_current # factors[1].co2e_per_unit

-----------------------------------------------------------------------------
(* The connection pool (app/database.py): the singleton and its lifecycle,  *)
(* get_db_cursor, get_db_connection and health_check under concurrent       *)
(* callers.  A write is named <<caller, block, statement>>.                 *)

InitPool ==
    /\ factors = <<>>
    /\ clock = 1
    /\ records = <<>>
    /\ req = NoRequest
    /\ pending = <<>>
    /\ held = 0
    /\ resolved = [called |-> FALSE]
    /\ metrics = <<>>
    /\ reply = NoReply
    /\ db_pool = [instance |-> FALSE, pool |-> "none", created |-> 0, app |-> "down"]
    /\ conns = [c \in ConnIds |-> [status |-> "free", tx |-> {}]]
    /\ users = [u \in Users |-> NoUser(0)]
    /\ persisted = {}
    /\ inflight = NoCall

(* DatabaseConnectionPool(): __new__ keeps the one instance, __init__       *)
(* creates the ThreadedConnectionPool only while _pool is None              *)
Constructed(p) ==
    [p EXCEPT !.instance = TRUE,
              !.pool = IF p.pool = "none" THEN "open" ELSE p.pool,
              !.created = IF p.pool = "none" THEN p.created + 1 ELSE p.created]

(* db_pool = DatabaseConnectionPool() when the module is imported *)
ModuleImport ==
    /\ ~db_pool.instance
    /\ db_pool' = Constructed(db_pool)
    /\ UNCHANGED <<factors, clock, records, req, pending, held, resolved, metrics,
                   reply, conns, users, persisted, inflight>>

(* The same with _initialize_pool raising Psycopg2Error: the instance is    *)
(* kept, _pool stays None, the import fails                                 *)
ModuleImportFail ==
    /\ ~db_pool.instance
    /\ db_pool' = [db_pool EXCEPT !.instance = TRUE]
    /\ UNCHANGED <<factors, clock, records, req, pending, held, resolved, metrics,
                   reply, conns, users, persisted, inflight>>

(* startup_event: init_database() constructs DatabaseConnectionPool() again *)
InitDatabase ==
    /\ db_pool.instance
    /\ db_pool.pool # "none"
    /\ db_pool.app = "down"
    /\ db_pool' = [Constructed(db_pool) EXCEPT !.app = "up"]
    /\ UNCHANGED <<factors, clock, records, req, pending, held, resolved, metrics,
                   reply, conns, users, persisted, inflight>>

(* shutdown_event, once the requests in flight have been answered:          *)
(* close_database() calls closeall(), which closes every connection (an     *)
(* open transaction is discarded) and leaves _pool bound to the closed pool *)
CloseDatabase ==
    /\ db_pool.app = "up"
    /\ \A u \in Users : users[u].pc = "idle"
    /\ db_pool' = [db_pool EXCEPT !.app = "down", !.pool = "closed"]
    /\ conns' = [c \in ConnIds |-> [status |-> "free", tx |-> {}]]
    /\ UNCHANGED <<factors, clock, records, req, pending, held, resolved, metrics,
                   reply, users, persisted, inflight>>

(* Connections getconn() can hand out *)
Free == {c \in ConnIds : conns[c].status = "free"}

(* get_connection returns: the pool is there, not closed and not exhausted  *)
(* (otherwise it raises RuntimeError or PoolError)                          *)
CanGetConnection == db_pool.pool = "open" /\ Free # {}

(* putconn() that puts the connection back as it is *)
ReturnConnectionAsIs(c) == [conns EXCEPT ![c].status = "free"]

(* return_connection: putconn() takes the connection back; one that is not  *)
(* idle is rolled back (or closed), so its open transaction is discarded    *)
ReturnConnection(c) == [conns EXCEPT ![c] = [status |-> "free", tx |-> {}]]

(* The caller's operation is over *)
Done(u, outcome) == [users[u] EXCEPT !.pc = "done", !.outcome = outcome]

(* with get_db_cursor(commit) / with get_db_connection(), and               *)
(* health_check(): conn = db_pool.get_connection().  When that raises,      *)
(* conn is None, nothing is returned, and the caller gets the exception     *)
(* (health_check answers False).                                            *)
Enter(u, kind, commit) ==
    /\ db_pool.app = "up"
    /\ users[u].pc = "idle"
    /\ users[u].blocks < MaxBlocks
    /\ IF CanGetConnection
         THEN \E c \in Free :
                /\ conns' = [conns EXCEPT ![c].status = "used"]
                /\ users' = [users EXCEPT ![u] =
                      [pc |-> "body", kind |-> kind, commit |-> commit, conn |-> c,
                       wrote |-> {}, committed |-> FALSE, outcome |-> "none",
                       blocks |-> users[u].blocks + 1]]
         ELSE /\ conns' = conns
              /\ users' = [users EXCEPT ![u] =
                    [NoUser(users[u].blocks + 1) EXCEPT
                        !.pc = "done", !.kind = kind, !.commit = commit,
                        !.outcome = IF kind = "health" THEN "False" ELSE "PoolError"]]
    /\ UNCHANGED <<factors, clock, records, req, pending, held, resolved, metrics,
                   reply, db_pool, persisted, inflight>>

InBlock(u) == users[u].pc = "body" /\ users[u].kind \in {"cursor", "connection"}

(* cursor.execute(an INSERT, UPDATE or DELETE) inside the block *)
Execute(u) ==
    /\ InBlock(u)
    /\ ~users[u].committed
    /\ Cardinality(users[u].wrote) < MaxStatements
    /\ LET w == <<u, users[u].blocks, Cardinality(users[u].wrote) + 1>>
       IN  /\ conns' = [conns EXCEPT ![users[u].conn].tx = @ \cup {w}]
           /\ users' = [users EXCEPT ![u].wrote = @ \cup {w}]
    /\ UNCHANGED <<factors, clock, records, req, pending, held, resolved, metrics,
                   reply, db_pool, persisted, inflight>>

(* A Psycopg2Error inside the block: conn.rollback(), raise, and in the     *)
(* finally clause the connection goes back                                  *)
DatabaseError(u) ==
    /\ InBlock(u)
    /\ ~users[u].committed
    /\ conns' = [ReturnConnection(users[u].conn) EXCEPT ![users[u].conn].tx = {}]
    /\ users' = [users EXCEPT ![u] = Done(u, "Psycopg2Error")]
    /\ UNCHANGED <<factors, clock, records, req, pending, held, resolved, metrics,
                   reply, db_pool, persisted, inflight>>

(* Any other exception inside the block (an HTTPException, a KeyError): no  *)
(* except clause takes it, the finally clause returns the connection        *)
OtherError(u) ==
    /\ InBlock(u)
    /\ ~users[u].committed
    /\ conns' = ReturnConnection(users[u].conn)
    /\ users' = [users EXCEPT ![u] = Done(u, "Exception")]
    /\ UNCHANGED <<factors, clock, records, req, pending, held, resolved, metrics,
                   reply, db_pool, persisted, inflight>>

(* cursor.connection.commit() as the routers call it, last in the block *)
CommitExplicit(u) ==
    /\ InBlock(u)
    /\ users[u].kind = "cursor"
    /\ ~users[u].commit
    /\ ~users[u].committed
    /\ persisted' = persisted \cup conns[users[u].conn].tx
    /\ conns' = [conns EXCEPT ![users[u].conn].tx = {}]
    /\ users' = [users EXCEPT ![u].committed = TRUE]
    /\ UNCHANGED <<factors, clock, records, req, pending, held, resolved, metrics,
                   reply, db_pool, inflight>>

(* The block ends normally: conn.commit() when commit was asked for, then   *)
(* the finally clause                                                       *)
Leave(u) ==
    /\ InBlock(u)
    /\ persisted' = IF users[u].commit
                      THEN persisted \cup conns[users[u].conn].tx
                      ELSE persisted
    /\ conns' = ReturnConnection(users[u].conn)
    /\ users' = [users EXCEPT ![u] = Done(u, "returned")]
    /\ UNCHANGED <<factors, clock, records, req, pending, held, resolved, metrics,
                   reply, db_pool, inflight>>

(* health_check: SELECT 1 answers, cursor.close(), return_connection(conn)  *)
HealthCheckPasses(u) ==
    /\ users[u].pc = "body"
    /\ users[u].kind = "health"
    /\ conns' = ReturnConnection(users[u].conn)
    /\ users' = [users EXCEPT ![u] = Done(u, "True")]
    /\ UNCHANGED <<factors, clock, records, req, pending, held, resolved, metrics,
                   reply, db_pool, persisted, inflight>>

(* health_check: conn.cursor() or cursor.execute raises; except Exception   *)
(* returns False, and return_connection(conn) was not reached               *)
HealthCheckFails(u) ==
    /\ users[u].pc = "body"
    /\ users[u].kind = "health"
    /\ users' = [users EXCEPT ![u] = Done(u, "False")]
    /\ UNCHANGED <<factors, clock, records, req, pending, held, resolved, metrics,
                   reply, db_pool, conns, persisted, inflight>>

(* The caller has its result or its exception and may go on to a next call *)
Return(u) ==
    /\ users[u].pc = "done"
    /\ users' = [users EXCEPT ![u] = NoUser(users[u].blocks)]
    /\ UNCHANGED <<factors, clock, records, req, pending, held, resolved, metrics,
                   reply, db_pool, conns, persisted, inflight>>

GetDbCursor == \E u \in Users, commit \in BOOLEAN : Enter(u, "cursor", commit)
GetDbConnection == \E u \in Users : Enter(u, "connection", FALSE)
HealthCheck == \E u \in Users : Enter(u, "health", FALSE)

NextPool ==
    \/ ModuleImport
    \/ ModuleImportFail
    \/ InitDatabase
    \/ CloseDatabase
    \/ GetDbCursor
    \/ GetDbConnection
    \/ HealthCheck
    \/ \E u \in Users : Execute(u)
    \/ \E u \in Users : DatabaseError(u)
    \/ \E u \in Users : OtherError(u)
    \/ \E u \in Users : CommitExplicit(u)
    \/ \E u \in Users : Leave(u)
    \/ \E u \in Users : HealthCheckPasses(u)
    \/ \E u \in Users : HealthCheckFails(u)
    \/ \E u \in Users : Return(u)

SpecPool == InitPool /\ [][NextPool]_vars

-----------------------------------------------------------------------------
(* Claims about the connection pool, under SpecPool *)

CheckedOut == {c \in ConnIds : conns[c].status = "used"}

(* The callers whose operation is in flight: inside the with block or       *)
(* inside health_check                                                      *)
InFlight == {u \in Users : users[u].pc = "body"}

(* C22: every connection an operation acquired (get_db_cursor,              *)
(* get_db_connection, health_check) is back in the pool once the operation  *)
(* has completed or failed: a connection that is checked out is held by an  *)
(* operation still in flight, so none is checked out when none is in        *)
(* flight.                                                                  *)
C22_ConnectionsReturned ==
    \A c \in CheckedOut : \E u \in InFlight : users[u].conn = c

(* The health check has answered False and its connection is still checked *)
(* out                                                                      *)
C22_WitnessLeak ==
    \E u \in Users :
        /\ users[u].pc = "done"
        /\ users[u].kind = "health"
        /\ users[u].outcome = "False"
        /\ users[u].conn \in CheckedOut

(* The block of caller u ended with an exception *)
Raised(u) ==
    users[u].pc = "done" /\ users[u].outcome \in {"Psycopg2Error", "Exception"}

(* The block of caller u ended normally *)
Returned(u) == users[u].pc = "done" /\ users[u].outcome = "returned"

C26_WitnessExplicit ==
    \E u \in Users :
        /\ Returned(u)
        /\ users[u].committed
        /\ Cardinality(users[u].wrote) = 2
        /\ users[u].wrote \subseteq persisted

(* C27: however often DatabaseConnectionPool() and init_database() run, the *)
(* underlying pool is created at most once, and whenever the application is *)
(* between init_database() and close_database(), also after a close and a   *)
(* new init, get_connection finds a pool that hands out connections.        *)
C27_SingletonLifecycle ==
    /\ db_pool.created <= 1
    /\ db_pool.app = "up" => db_pool.pool = "open"

(* init_database() after close_database(): the request gets PoolError *)
C27_WitnessRestart ==
    /\ db_pool.app = "up"
    /\ db_pool.pool = "closed"
    /\ \E u \in Users : users[u].pc = "done" /\ users[u].outcome = "PoolError"

(* C29: no operation holds two connections, and at every moment the number  *)
(* of checked-out connections is at most the number of operations in flight *)
(* and at most DB_POOL_SIZE + DB_MAX_OVERFLOW.                              *)
C29_CheckedOutWithinInFlight ==
    /\ \A u \in InFlight : users[u].conn \in CheckedOut
    /\ \A u, v \in InFlight : u # v => users[u].conn # users[v].conn
    /\ Cardinality(CheckedOut) <= Cardinality(InFlight)
    /\ Cardinality(CheckedOut) <= MaxConn

(* No operation is in flight and a connection is checked out *)
C29_WitnessIdleCheckedOut ==
    /\ InFlight = {}
    /\ \A u \in Users : users[u].pc = "idle"
    /\ CheckedOut # {}

-----------------------------------------------------------------------------
(* The request handlers side by side: create_emission_record and           *)
(* create_business_metric run while a yoy or intensity request is in       *)
(* flight, each repository call of the request being one step.             *)

(* Request values: activity dates (one after today), <<current_year,       *)
(* previous_year>> (defaults, equal years, years out of range), periods    *)
(* (2024, an end before the start, eleven years), metric names (one of     *)
(* blanks only) and the metrics posted (one dated after today)             *)
RequestDates == {20240615, 20991231}
RequestYears == {<<NULL, NULL>>, <<2024, 2024>>, <<2101, 2023>>, <<2024, 1899>>}
RequestPeriods == {<<20240101, 20241231>>, <<20240615, 20230615>>, <<20130101, 20231231>>}
RequestMetricNames == {"Tons of Steel", "  "}
RequestMetrics ==
    {<<"Tons of Steel", 300, "tons", 20240101>>, <<"Tons of Steel", 450, "tons", 20240615>>,
     <<"Tons of Steel", 450, "tons", 20991231>>}

(* str(e) of an exception raised below the handlers *)
ErrorTexts ==
    {"connection pool exhausted", "could not connect to server at db-internal:5432"}

InitRequests ==
    /\ factors = <<FactorRow(<<20230101, NULL, 268>>)>>
    /\ clock = 1
    /\ records = <<>>
    /\ req = NoRequest
    /\ pending = <<>>
    /\ held = 0
    /\ resolved = [called |-> FALSE]
    /\ metrics = <<>>
    /\ reply = NoReply
    /\ PoolStarted
    /\ inflight = NoCall

(* str(exc.detail): the text of the detail dictionary, which spells out     *)
(* each of its values                                                       *)
Str(detail) == <<"code", detail.code, "message", detail.message, "details", detail.details>>

(* http_exception_handler: the JSON answer to a raised HTTPException *)
HttpExceptionHandler(status_code, detail) ==
    [status |-> status_code,
     code |-> <<"HTTP", status_code>>,
     message |-> Str(detail),
     details |-> [status_code |-> status_code]]

(* The handlers' validation failures: raise HTTPException(400, detail) *)
ValidationError(code, details) ==
    HttpExceptionHandler(400, [code |-> code, message |-> code, details |-> details])

(* except Exception as e: raise HTTPException(500, detail) with             *)
(* details = {"error": str(e)}                                              *)
InternalError(op, text) ==
    HttpExceptionHandler(500,
        [code |-> "INTERNAL_ERROR",
         message |-> <<"An unexpected error occurred", op>>,
         details |-> [error |-> text]])

(* The yoy handler's checks with the comparison of the two years left out *)
YearsRejectionRangeOnly(current_year, previous_year) ==
    IF current_year < 1900 \/ current_year > 2100
       \/ previous_year < 1900 \/ previous_year > 2100
      THEN "INVALID_YEAR"
    ELSE "none"

(* get_yoy_emissions: the code of the validation that fails, if one does *)
YearsRejection(current_year, previous_year) ==
    IF current_year < 1900 \/ current_year > 2100
       \/ previous_year < 1900 \/ previous_year > 2100
      THEN "INVALID_YEAR"
    ELSE IF previous_year >= current_year THEN "INVALID_YEAR_RANGE"
    ELSE "none"

(* get_emission_intensity: the code of the validation that fails, if one    *)
(* does                                                                     *)
PeriodRejection(start_date, end_date, metric_name) ==
    IF end_date < start_date THEN "INVALID_DATE_RANGE"
    ELSE IF ToOrdinal(end_date) - ToOrdinal(start_date) > 3650 THEN "DATE_RANGE_TOO_LARGE"
    ELSE IF Strip(metric_name) = "" THEN "INVALID_METRIC_NAME"
    ELSE "none"

(* The request as it arrives: no repository call made yet, the store state  *)
(* of the moment noted                                                      *)
Arrived(op, args) ==
    [pc |-> "validate", op |-> op, args |-> args, queries |-> 0,
     seen |-> {<<Len(records), Len(metrics)>>},
     emissions_result |-> [total_emissions |-> NULL],
     production_result |-> [total_value |-> NULL],
     raised |-> "none", response |-> [status |-> 0]]

(* The request is answered *)
Respond(c, raised, response) ==
    [c EXCEPT !.pc = "done", !.raised = raised, !.response = response]

(* GET /api/analytics/yoy: defaults and validation; the request is answered *)
(* 400 or goes on to the service                                            *)
YoYArrives(current_in, previous_in) ==
    LET current_year  == IF current_in = NULL THEN YearOf(Today) ELSE current_in
        previous_year == IF previous_in = NULL THEN current_year - 1 ELSE previous_in
        c == Arrived("yoy", [current_year |-> current_year, previous_year |-> previous_year])
        code == YearsRejection(current_year, previous_year)
    IN  /\ inflight.pc \in {"idle", "done"}
        /\ inflight' = IF code # "none"
                         THEN Respond(c, "HTTPException", ValidationError(code, c.args))
                         ELSE [c EXCEPT !.pc = "yoy_query"]
        /\ UNCHANGED <<factors, clock, records, req, pending, held, resolved, metrics,
                       reply, poolVars>>

(* analytics_service.get_yoy_emissions: its repository call and the answer *)
YoYQuery ==
    /\ inflight.pc = "yoy_query"
    /\ \E result \in GetYoYEmissions(records, inflight.args.current_year,
                                    inflight.args.previous_year) :
          inflight' = Respond([inflight EXCEPT !.queries = @ + 1], "none",
                                [status |-> 200, body |-> result])
    /\ UNCHANGED <<factors, clock, records, req, pending, held, resolved, metrics,
                   reply, poolVars>>

(* The repository call raises (no connection, a failed query): the service  *)
(* and the repository re-raise, the handler's except Exception answers      *)
YoYQueryFails(text) ==
    /\ inflight.pc = "yoy_query"
    /\ inflight' = Respond([inflight EXCEPT !.queries = @ + 1], text,
                             InternalError("yoy", text))
    /\ UNCHANGED <<factors, clock, records, req, pending, held, resolved, metrics,
                   reply, poolVars>>

(* GET /api/analytics/intensity: validation *)
IntensityArrives(start_date, end_date, metric_name) ==
    LET c == Arrived("intensity", [start_date |-> start_date, end_date |-> end_date,
                                   metric_name |-> metric_name])
        code == PeriodRejection(start_date, end_date, metric_name)
    IN  /\ inflight.pc \in {"idle", "done"}
        /\ inflight' = IF code # "none"
                         THEN Respond(c, "HTTPException", ValidationError(code, c.args))
                         ELSE [c EXCEPT !.pc = "emissions"]
        /\ UNCHANGED <<factors, clock, records, req, pending, held, resolved, metrics,
                       reply, poolVars>>

(* emission_repository.get_total_emissions_for_period(start_date, end_date) *)
IntensityEmissions ==
    /\ inflight.pc = "emissions"
    /\ inflight' = [inflight EXCEPT
          !.pc = "production",
          !.queries = @ + 1,
          !.emissions_result =
              GetTotalEmissionsForPeriod(records, inflight.args.start_date,
                                         inflight.args.end_date)]
    /\ UNCHANGED <<factors, clock, records, req, pending, held, resolved, metrics,
                   reply, poolVars>>

(* business_metrics_repository.get_metric_total_for_period(...), the rest   *)
(* of calculate_emission_intensity and the handler's answer                 *)
IntensityProduction ==
    /\ inflight.pc = "production"
    /\ LET production_result ==
               GetMetricTotalForPeriod(metrics, Strip(inflight.args.metric_name),
                                       inflight.args.start_date, inflight.args.end_date)
           c == [inflight EXCEPT !.queries = @ + 1,
                                 !.production_result = production_result]
       IN  \E out \in IntensityOutcome(inflight.emissions_result, production_result,
                                      inflight.args.start_date, inflight.args.end_date,
                                      Strip(inflight.args.metric_name)) :
              inflight' =
                  IF out.raised = "none"
                    THEN Respond(c, "none", [status |-> 200, body |-> out.result])
                    ELSE Respond(c, out.raised,
                                   InternalError("intensity", <<out.raised, out.details>>))
    /\ UNCHANGED <<factors, clock, records, req, pending, held, resolved, metrics,
                   reply, poolVars>>

(* Either repository call raises *)
IntensityQueryFails(text) ==
    /\ inflight.pc \in {"emissions", "production"}
    /\ inflight' = Respond([inflight EXCEPT !.queries = @ + 1], text,
                             InternalError("intensity", text))
    /\ UNCHANGED <<factors, clock, records, req, pending, held, resolved, metrics,
                   reply, poolVars>>

(* POST /api/metrics: the date check, the INSERT and the commit *)
CreateBusinessMetric(in) ==
    /\ Len(metrics) < MaxMetrics
    /\ IF in[4] > Today
         THEN /\ reply' = [op |-> "create_metric", status |-> 400, code |-> "FUTURE_DATE"]
              /\ UNCHANGED <<metrics, inflight>>
         ELSE /\ metrics' = Append(metrics,
                    [metric_id |-> Len(metrics) + 1, metric_name |-> in[1],
                     value |-> in[2], unit |-> in[3], metric_date |-> in[4]])
              /\ reply' = [op |-> "create_metric", status |-> 200,
                           metric_id |-> Len(metrics) + 1]
              /\ inflight' = Observed(inflight, Len(records), Len(metrics) + 1)
    /\ UNCHANGED <<factors, clock, records, req, pending, held, resolved, poolVars>>

(* POST /api/metrics when the INSERT or the commit raises: rolled back,     *)
(* answered by except Exception                                             *)
CreateBusinessMetricFails(in, text) ==
    /\ in[4] <= Today
    /\ reply' = [op |-> "create_metric"] @@ InternalError("create_metric", text)
    /\ UNCHANGED <<factors, clock, records, req, pending, held, resolved, metrics,
                   poolVars, inflight>>

NextRequests ==
    \/ \E name \in Names, unit \in Units, d \in RequestDates : Submit(name, unit, d, 1000)
    \/ DateCheck
    \/ Acquire
    \/ AcquireFail
    \/ Lookup
    \/ LookupFail
    \/ UnitCheck
    \/ Insert
    \/ InsertFail
    \/ Commit
    \/ CommitFail
    \/ \E in \in RequestMetrics : CreateBusinessMetric(in)
    \/ \E in \in RequestMetrics, text \in ErrorTexts : CreateBusinessMetricFails(in, text)
    \/ \E years \in RequestYears : YoYArrives(years[1], years[2])
    \/ YoYQuery
    \/ \E text \in ErrorTexts : YoYQueryFails(text)
    \/ \E period \in RequestPeriods, metric_name \in RequestMetricNames :
          IntensityArrives(period[1], period[2], metric_name)
    \/ IntensityEmissions
    \/ IntensityProduction
    \/ \E text \in ErrorTexts : IntensityQueryFails(text)

SpecRequests == InitRequests /\ [][NextRequests]_vars

-----------------------------------------------------------------------------
(* Claims about the handlers side by side *)

(* A yoy or intensity request whose values the handlers must refuse, told   *)
(* from the values alone                                                    *)
InvalidRequest(c) ==
    \/ /\ c.op = "yoy"
       /\ \/ c.args.previous_year >= c.args.current_year
          \/ c.args.current_year < 1900 \/ c.args.current_year > 2100
          \/ c.args.previous_year < 1900 \/ c.args.previous_year > 2100
    \/ /\ c.op = "intensity"
       /\ \/ c.args.end_date < c.args.start_date
          \/ ToOrdinal(c.args.end_date) - ToOrdinal(c.args.start_date) > 3650
          \/ Strip(c.args.metric_name) = ""

(* Nothing stored, nothing uncommitted and no connection changes in the step *)
StoreUntouched == UNCHANGED <<records, metrics, factors, pending, held>>

(* C25: validation failures short-circuit before any mutation.  The step   *)
(* in which an invalid yoy or intensity request arrives is the step that   *)
(* answers it 400, with no repository call made and the store, the         *)
(* uncommitted rows and the connections as they were; the step that checks *)
(* the date of a createRecord request dated after today ends the request   *)
(* with FUTURE_DATE, again with all of these as they were.                 *)
C25_ValidationShortCircuits ==
    [][/\ (inflight' # inflight /\ inflight'.pc # "idle" /\ InvalidRequest(inflight')) =>
            /\ inflight'.pc = "done"
            /\ inflight'.queries = 0
            /\ inflight'.response.status = 400
            /\ StoreUntouched
       /\ (req.pc = "date_check" /\ req.activity_date > Today /\ req' # req) =>
            /\ req'.pc = "done"
            /\ req'.outcome = "FUTURE_DATE"
            /\ StoreUntouched]_vars

(* An invalid request was answered while the store held a record and a     *)
(* metric and a createRecord request was under way holding a connection    *)
C25_Witness ==
    /\ inflight.pc = "done"
    /\ InvalidRequest(inflight)
    /\ inflight.op = "yoy"
    /\ inflight.args.previous_year >= inflight.args.current_year
    /\ Len(records) > 0
    /\ Len(metrics) > 0
    /\ held > 0

(* An intensity request over eleven years was answered 400 *)
C25_WitnessPeriod ==
    /\ inflight.pc = "done"
    /\ inflight.op = "intensity"
    /\ inflight.response.status = 400
    /\ ToOrdinal(inflight.args.end_date) - ToOrdinal(inflight.args.start_date) > 3650
    /\ Len(records) > 0

(* A createRecord request dated after today was ended with FUTURE_DATE *)
C25_WitnessFutureDate ==
    /\ req.pc = "done"
    /\ req.outcome = "FUTURE_DATE"
    /\ req.activity_date > Today
    /\ Len(records) > 0

(* A yoy, intensity or metric request came to an exception raised below    *)
(* the handler, with the text t                                            *)
FailedWith(t) ==
    \/ inflight.pc = "done" /\ inflight.raised = t
    \/ reply = [op |-> "create_metric"] @@ InternalError("create_metric", t)

(* The answer the caller got for the failed request *)
FailureResponse(t) ==
    IF inflight.pc = "done" /\ inflight.raised = t
      THEN inflight.response
      ELSE [x \in DOMAIN reply \ {"op"} |-> reply[x]]

(* The handler that answered *)
FailureOp(t) ==
    IF inflight.pc = "done" /\ inflight.raised = t THEN inflight.op ELSE "create_metric"

(* C23: an unexpected or infrastructure error is reported as an opaque     *)
(* failure.  The answer to a request that failed with one internal text is *)
(* the answer the same request gets when it fails with any other text.     *)
C23_OpaqueFailure ==
    \A t \in ErrorTexts :
        FailedWith(t) =>
            \A other \in ErrorTexts :
                FailureResponse(t) = InternalError(FailureOp(t), other)

(* A yoy request failed in its repository call and was answered 500 while  *)
(* the store held a record                                                 *)
C23_WitnessFailure ==
    /\ inflight.pc = "done"
    /\ inflight.op = "yoy"
    /\ inflight.raised \in ErrorTexts
    /\ inflight.response.status = 500
    /\ Len(records) > 0

(* The totals of the first i records and the first j metrics over the      *)
(* period of the intensity call c                                          *)
TotalsAt(c, i, j) ==
    <<GetTotalEmissionsForPeriod(SubSeq(records, 1, i), c.args.start_date,
                                 c.args.end_date).total_emissions,
      GetMetricTotalForPeriod(SubSeq(metrics, 1, j), Strip(c.args.metric_name),
                              c.args.start_date, c.args.end_date).total_value>>

(* An intensity call that made both of its repository calls and is         *)
(* answered                                                                *)
IntensityAnswered ==
    /\ inflight.pc = "done"
    /\ inflight.op = "intensity"
    /\ inflight.queries = 2
    /\ inflight.raised \notin ErrorTexts

(* C28: the pair of totals an intensity call uses is the pair of totals of *)
(* one store state that existed between the call's start and its end.      *)
(* Rows are only ever appended, so the store states of the call are the    *)
(* pairs of table lengths noted in seen.                                   *)
C28_OneStoreState ==
    IntensityAnswered =>
        \E at \in inflight.seen :
            TotalsAt(inflight, at[1], at[2]) =
                <<inflight.emissions_result.total_emissions,
                  inflight.production_result.total_value>>

(* An intensity call was answered 200 after a record was committed and a   *)
(* metric created between its two repository calls                         *)
C28_WitnessInterleaved ==
    /\ IntensityAnswered
    /\ inflight.response.status = 200
    /\ inflight.emissions_result.total_emissions = NULL
    /\ inflight.production_result.total_value # NULL
    /\ Len(records) > 0
    /\ Cardinality(inflight.seen) = 3

====
